---- MODULE Spec2Model ----
(***************************************************************************)
(* Verification model of the storyboard pipeline of heffrey/dev-jesus:     *)
(*   scripts/generate_storyboards.py  main(), the reference cache and the  *)
(*                                    reference selection;                 *)
(*   scripts/generate_*.py            call_gemini (HTTP 429 retry loop).   *)
(*                                                                         *)
(* A path is modelled by its basename, split at "-" into a sequence of     *)
(* string tokens and without its extension: "ref-joel.png" is              *)
(* <<"ref", "joel">>, "scene-1-2.png" is <<"scene", "1", "2">>.            *)
(* basename.startswith("ref-") is then "the first token is ref and another *)
(* token follows".                                                         *)
(***************************************************************************)
EXTENDS Integers, Sequences, FiniteSets, TLC

(***************************************************************************)
(* Bounds of the model.                                                    *)
(***************************************************************************)
\* scene files matched by --scene-glob
NScenes == 2
\* chunks returned by divide_scene_into_storyboards for a scene
NChunks == 2
\* images one generation response may carry
MaxImages == 1
\* longest HTTP exchange followed in one call_gemini invocation
MaxRetriesBound == 5
\* scenes defined by the acts file of generate_scenes.py
NSceneDefs == 3
\* "## " sections of a scene text given to divide_scene_into_storyboards
MaxSections == 3
\* paragraphs of a section body, or of a scene text without sections
MaxParas == 2
\* largest max_storyboards of a band
MaxBand == 3
\* characters of the definitions given to filter_characters_by_era
MaxCharacters == 3
\* acts of the list the service returns to generate_acts_structure
MaxActs == 3
\* scenes of an act of that list
MaxReturnedScenes == 5
\* largest --panel-count, "## " sections and paragraphs of a section of the
\* chunk texts given to derive_panel_instructions
MaxPanels == 7
MaxPanelSections == 2
MaxPanelParas == 2
\* characters of the definitions given to build_scene_prompt
MaxDefined == 7

(***************************************************************************)
(* Program constants.                                                      *)
(***************************************************************************)
CharacterCap == 10
ExtraCap == 10
SettingCap == 5
CanonicalMaxRefs == 1
DefaultMaxRefs == 2
ExtraMaxRefs == 2
SettingViewRefs == 1

(***************************************************************************)
(* The definitions store (definitions.json), immutable during a run.       *)
(***************************************************************************)
Characters == {"Joel", "Mary"}
Extras == {"Ark"}
Settings == {"Galilee"}
Views == <<"indoor", "outdoor">>

\* str.lower().replace(' ', '-') of an entity name, as used in file names
LowerName(n) ==
    CASE n = "Joel" -> "joel"
      [] n = "Mary" -> "mary"
      [] n = "Ark" -> "ark"
      [] n = "Galilee" -> "galilee"

\* the fixed order in which a detected set is iterated (definition order)
EntityOrder == <<"Joel", "Mary", "Ark", "Galilee">>

\* the members of set S as a list, in definition order
AsList(S) == SelectSeq(EntityOrder, LAMBDA n : n \in S)

(***************************************************************************)
(* Paths.                                                                  *)
(***************************************************************************)
CharacterRefPath(c) == <<"ref", LowerName(c)>>
ExtraRefPath(e) == <<"ref", "extra", LowerName(e)>>
SettingRefPath(s, view) == <<"ref", "setting", LowerName(s), view>>
StyleRefPath == <<"ref", "style">>

\* build_scene_id: the file name of the idx-th scene without its extension
SceneId(idx) == <<"scene", ToString(idx)>>

\* the storyboard image written for image img_idx of chunk sb_idx
OutputPath(scene, sb_idx, img_idx, total_storyboards, n_images) ==
    SceneId(scene)
      \o (IF total_storyboards > 1 THEN <<ToString(sb_idx)>> ELSE <<>>)
      \o (IF n_images > 1 THEN <<ToString(img_idx)>> ELSE <<>>)

\* os.path.basename(p).lower().startswith("ref-")
StartsWithRef(p) == Len(p) >= 2 /\ p[1] = "ref"
\* ... .startswith("ref-extra-")
StartsWithRefExtra(p) == Len(p) >= 3 /\ p[1] = "ref" /\ p[2] = "extra"
\* ... .startswith("ref-setting-")
StartsWithRefSetting(p) == Len(p) >= 3 /\ p[1] = "ref" /\ p[2] = "setting"
\* ... .startswith("ref-style")
StartsWithRefStyle(p) == Len(p) >= 2 /\ p[1] = "ref" /\ p[2] = "style"

(***************************************************************************)
(* List helpers (Python list semantics).                                   *)
(***************************************************************************)
InList(p, list) == \E i \in 1..Len(list) : list[i] = p
\* list[:n]
Take(list, n) == SubSeq(list, 1, IF Len(list) < n THEN Len(list) ELSE n)


\* remove duplicates while preserving order (main, "seen" loop)
RECURSIVE Dedup(_)
Dedup(list) ==
    IF list = <<>> THEN <<>>
    ELSE LET rest == Dedup(SubSeq(list, 1, Len(list) - 1))
             last == list[Len(list)]
         IN  IF InList(last, rest) THEN rest ELSE Append(rest, last)

\* concatenation of the lists f[n], n ranging over the list names
RECURSIVE Flatten(_, _)
Flatten(names, f) ==
    IF names = <<>> THEN <<>> ELSE f[Head(names)] \o Flatten(Tail(names), f)

(***************************************************************************)
(* The reference cache.  A reference map is a function from the entity     *)
(* names that are keys of the JSON object to their lists.                  *)
(***************************************************************************)
NoRefs == [n \in {} |-> <<>>]
NoSettingRefs == [n \in {} |-> [indoor |-> <<>>, outdoor |-> <<>>]]

\* references[name] = value, creating the key when it is absent
SetKey(refs, name, value) ==
    [n \in DOMAIN refs \cup {name} |-> IF n = name THEN value ELSE refs[n]]

\* "if rel_path not in list: list.insert(0, rel_path); list = list[:cap]"
InsertFront(list, rel_path, cap) ==
    IF InList(rel_path, list) THEN list ELSE Take(<<rel_path>> \o list, cap)

update_character_references(character_references, character_name, image_path) ==
    LET current == IF character_name \in DOMAIN character_references
                   THEN character_references[character_name] ELSE <<>>
    IN  SetKey(character_references, character_name,
               InsertFront(current, image_path, CharacterCap))

\* first-appearance bootstrap of an extra: the inline update of main
update_extra_references(extra_references, extra_name, ref_path) ==
    LET current == IF extra_name \in DOMAIN extra_references
                   THEN extra_references[extra_name] ELSE <<>>
    IN  SetKey(extra_references, extra_name,
               InsertFront(current, ref_path, ExtraCap))

\* first-appearance bootstrap of one view of a setting: the inline update of main
update_setting_references(setting_references, setting_name, view, ref_path) ==
    LET current == IF setting_name \in DOMAIN setting_references
                   THEN setting_references[setting_name]
                   ELSE [indoor |-> <<>>, outdoor |-> <<>>]
    IN  SetKey(setting_references, setting_name,
               [current EXCEPT ![view] = InsertFront(current[view], ref_path, SettingCap)])

\* char_name_map of sync_canonical_references: lower-cased name or alias -> name
CharNameMap ==
    [k \in {"joel", "yoel", "mary"} |->
        CASE k = "joel" -> "Joel" [] k = "yoel" -> "Joel" [] k = "mary" -> "Mary"]

\* the name part of a canonical file name: "ref-joel.png" -> "joel"
NamePart(p) == IF Len(p) = 2 THEN p[2] ELSE "?"

\* the ref-* files of output_dir that sync_canonical_references does not skip
SyncCandidates(disk) ==
    {p \in disk : /\ StartsWithRef(p)
                  /\ ~StartsWithRefSetting(p)
                  /\ ~StartsWithRefExtra(p)
                  /\ ~StartsWithRefStyle(p)
                  /\ NamePart(p) \in DOMAIN CharNameMap}

\* one file of the glob loop: create the key, insert the path at the front
\* unless a path of the same basename is already listed (no truncation)
SyncOne(character_references, ref_path) ==
    LET canonical_name == CharNameMap[NamePart(ref_path)]
        current == IF canonical_name \in DOMAIN character_references
                   THEN character_references[canonical_name] ELSE <<>>
    IN  SetKey(character_references, canonical_name,
               IF InList(ref_path, current) THEN current ELSE <<ref_path>> \o current)

RECURSIVE SyncAll(_, _)
SyncAll(character_references, todo) ==
    IF todo = {} THEN character_references
    ELSE LET p == CHOOSE q \in todo : TRUE
         IN  SyncAll(SyncOne(character_references, p), todo \ {p})

\* the map left by sync_canonical_references (its return value "changed" is
\* "the map differs from the one passed in")
sync_canonical_references(character_references, disk) ==
    SyncAll(character_references, SyncCandidates(disk))

(***************************************************************************)
(* Reference selection.                                                    *)
(***************************************************************************)
\* main: "has_canonical" of a character's list
HasCanonical(character_references, char_name) ==
    /\ char_name \in DOMAIN character_references
    /\ \E i \in 1..Len(character_references[char_name]) :
          StartsWithRef(character_references[char_name][i])

\* main: max_refs = 1 if has_canonical else 2
MaxRefsIgnoringCanonical(has_canonical) == DefaultMaxRefs
MaxRefs(has_canonical) ==
    IF has_canonical THEN CanonicalMaxRefs ELSE DefaultMaxRefs

find_character_reference_images(character_name, character_references, disk, max_references) ==
    IF character_name \notin DOMAIN character_references THEN <<>>
    ELSE LET reference_paths == character_references[character_name]
             ref_images == SelectSeq(reference_paths, StartsWithRef)
             storyboard_images ==
                 SelectSeq(reference_paths, LAMBDA p : ~StartsWithRef(p))
             first == Take(ref_images, 1)
             prioritized_paths ==
                 IF Len(first) < max_references
                 THEN first \o Take(storyboard_images, max_references - Len(first))
                 ELSE first
         IN  SelectSeq(prioritized_paths, LAMBDA p : p \in disk)

\* main: the images attached for one present character
SelectCharacterImages(char_name, character_references, disk) ==
    find_character_reference_images(
        char_name, character_references, disk,
        MaxRefs(HasCanonical(character_references, char_name)))

\* main: the images attached for one present extra
SelectExtraImages(extra_name, extra_references, disk) ==
    IF extra_name \notin DOMAIN extra_references THEN <<>>
    ELSE LET ref_paths == extra_references[extra_name]
             ref_images == SelectSeq(ref_paths, StartsWithRefExtra)
             storyboard_images ==
                 SelectSeq(ref_paths, LAMBDA p : ~StartsWithRefExtra(p))
             first == Take(ref_images, 1)
             prioritized_paths ==
                 IF Len(first) < ExtraMaxRefs
                 THEN first \o Take(storyboard_images, ExtraMaxRefs - Len(first))
                 ELSE first
         IN  SelectSeq(prioritized_paths, LAMBDA p : p \in disk)

\* main: the images attached for one present setting (first indoor, first outdoor)
SelectSettingImages(setting_name, setting_references, disk) ==
    IF setting_name \notin DOMAIN setting_references THEN <<>>
    ELSE LET refs == setting_references[setting_name]
         IN  SelectSeq(Take(refs.indoor, SettingViewRefs), LAMBDA p : p \in disk)
               \o SelectSeq(Take(refs.outdoor, SettingViewRefs), LAMBDA p : p \in disk)


(***************************************************************************)
(* State of one run of generate_storyboards.py main().                     *)
(***************************************************************************)
VARIABLES
    pc,                           \* position in main()
    cast,                         \* the defined entities the scene files name
    api_key,                      \* args.api_key is set
    dry_run,                      \* args.dry_run
    has_style,                    \* definitions.get("style") is non-empty
    total_scenes,                 \* len(scene_paths)
    files,                        \* image files present in output_dir
    character_references,         \* in-memory cache, name -> list
    extra_references,
    setting_references,
    saved_character_references,   \* content of character_references.json
    saved_extra_references,       \* content of extra_references.json
    saved_setting_references,     \* content of setting_references.json
    style_reference_path,
    idx,                          \* scene being processed, 1-based
    total_storyboards,            \* len(storyboard_chunks) of the scene
    characters, settings, extras, \* scene-level detect_entities result
    queue,                        \* first-appearance checks still to make
    sb_idx,                       \* chunk being processed, 1-based
    chunk_characters, chunk_settings, chunk_extras,
    char_ref_images,              \* images selected per present character
    extra_ref_images,             \* images selected per present extra
    reference_images,             \* the de-duplicated list sent with the request
    last,                         \* outcome of the latest generation step
    requests,                     \* requests sent to the service so far
    last_request,                 \* the request sent by the latest step, or NoRequest
    boot_ok,                      \* successful first-appearance generations
    exit_code

main_vars ==
    <<pc, cast, api_key, dry_run, has_style, total_scenes, files,
      character_references, extra_references, setting_references,
      saved_character_references, saved_extra_references, saved_setting_references,
      style_reference_path, idx, total_storyboards, characters, settings, extras,
      queue, sb_idx, chunk_characters, chunk_settings, chunk_extras,
      char_ref_images, extra_ref_images, reference_images, last,
      requests, last_request, boot_ok, exit_code>>

\* state of one call_gemini invocation
VARIABLES
    call_pc,       \* "idle", "loop" (inside while True) or "done" (returned or raised)
    max_retries,   \* argument
    retry_base,    \* argument
    attempt,       \* local counter
    n_requests,    \* urlopen calls made by this invocation
    delays,        \* the time.sleep arguments, in order
    call_result,   \* "none", "response", or the exception that propagated
    only_429,      \* every response so far was an HTTP 429
    retry_afters   \* the Retry-After headers of the 429 responses, in order

call_vars ==
    <<call_pc, max_retries, retry_base, attempt, n_requests, delays, call_result,
      only_429, retry_afters>>

\* state of one run of generate_scenes.py main()
VARIABLES
    scenes_pc,          \* position in main()
    scenes_api_key,     \* args.api_key is set
    acts_file,          \* os.path.isfile(args.acts_file)
    start_scene,        \* args.start_scene
    end_scene,          \* args.end_scene, NoEndScene for None
    scenes_to_generate, \* scene numbers, in the order of the acts file
    scenes_idx,         \* position in scenes_to_generate, 1-based
    scene_files,        \* scenes_dir: scene number -> "old" (left by an earlier
                        \* run) or "new" (written by this run)
    continuity_files,   \* scene numbers that have a .continuity.md cache file
    previous_scenes,    \* scene numbers whose summary was appended
    scenes_requests,    \* requests sent to the service, in order
    scenes_last,        \* outcome of the latest generation step
    scenes_exit         \* return value of main(), -1 while it runs

scenes_vars ==
    <<scenes_pc, scenes_api_key, acts_file, start_scene, end_scene,
      scenes_to_generate, scenes_idx, scene_files, continuity_files,
      previous_scenes, scenes_requests, scenes_last, scenes_exit>>

\* state of one run of generate_narrative.py main()
VARIABLES
    narrative_pc,        \* position in main()
    narrative_api_key,   \* args.api_key is set
    use_gemini,          \* args.use_gemini
    story_exists,        \* os.path.exists(story_path)
    narrative_requests,  \* requests sent to the service so far
    narrative_written,   \* acts.json, definitions.json and README.md are written
    narrative_exit       \* return value of main(), -1 while it runs

narrative_vars ==
    <<narrative_pc, narrative_api_key, use_gemini, story_exists,
      narrative_requests, narrative_written, narrative_exit>>

\* state of one call of divide_scene_into_storyboards
VARIABLES
    divide_pc,        \* "idle", "start", "grouped" (first pass done) or "done"
    sections,         \* extract_sections(scene_text): per section the number of
                      \* paragraphs of its body and its count of quote characters
    paragraphs,       \* paragraphs of a scene text that has no section
    dialog_dense,     \* avg_dialog_per_para >= 2
    min_storyboards,  \* argument
    max_storyboards,  \* argument
    storyboards       \* list of [title, text], a text being a list of paragraphs

divide_vars ==
    <<divide_pc, sections, paragraphs, dialog_dense, min_storyboards,
      max_storyboards, storyboards>>

\* state of one call of filter_characters_by_era (generate_scenes.py)
VARIABLES
    filter_pc,        \* "idle", "start" or "done"
    filter_characters,      \* argument: character key -> value of its "era" entry
    allowed_eras,     \* argument: set of lower-case era strings
    filtered          \* the returned dict

filter_vars == <<filter_pc, filter_characters, allowed_eras, filtered>>

\* state of the detection of the entities of one chunk in main() of
\* generate_storyboards.py
VARIABLES
    detect_pc,         \* "idle", "start", "detected", "characters" or "done"
    chunk_text,        \* the text of the chunk, a sequence of characters
    definitions,       \* definitions.json
    whole_scene_characters,  \* characters detected in the whole scene
    whole_scene_settings,    \* settings detected in the whole scene
    previous_chunk_settings, \* chunk_settings of the chunk before this one
    found_characters,  \* chunk_characters
    found_settings,    \* chunk_settings
    found_extras       \* chunk_extras

detect_vars ==
    <<detect_pc, chunk_text, definitions, whole_scene_characters,
      whole_scene_settings, previous_chunk_settings, found_characters,
      found_settings, found_extras>>

\* generate_acts_structure of generate_narrative.py, from the reply of the
\* service to the returned list
VARIABLES
    acts_pc,       \* "idle", "start", "loop" or "done"
    cycles_len,    \* len(cycles)
    reply_is_json, \* json.loads accepts the text of the reply
    act_list,      \* acts: [number, scenes], a scene [number, purpose]
    act_i,         \* position of the numbering loop in acts, from 1
    acts_scene_num \* scene_num
acts_vars ==
    <<acts_pc, cycles_len, reply_is_json, act_list, act_i, acts_scene_num>>

\* derive_panel_instructions of generate_storyboards.py
VARIABLES
    panel_pc,         \* "idle", "start", "extracted", "counted" or "done"
    chunk_sections,   \* extract_sections(chunk_text): [title, paragraphs]
    chunk_paragraphs, \* the paragraphs of a chunk_text without section
    args_panel_count, \* args.panel_count: <<>> for None, <<n>> for the integer n
    panel_count,      \* the local panel_count, in the same form
    character_names,
    instructions
panel_vars ==
    <<panel_pc, chunk_sections, chunk_paragraphs, args_panel_count,
      panel_count, character_names, instructions>>

\* the choice of the characters listed by build_scene_prompt of
\* generate_scenes.py
VARIABLES
    prompt_pc,                \* "idle", "start", "filtered" or "done"
    all_characters,           \* list of [key, era, main, named], in dict order
    settings_from_purpose,    \* the "era" entries of the settings named
    scene_eras,
    era_filtered_characters,
    characters_from_purpose,
    prompt_characters         \* characters
prompt_vars ==
    <<prompt_pc, all_characters, settings_from_purpose, scene_eras,
      era_filtered_characters, characters_from_purpose, prompt_characters>>

\* the variables of the further functions that are followed on their own
more_vars == <<acts_vars, panel_vars, prompt_vars>>

\* the variables of the pure functions that are followed on their own
pure_vars == <<divide_vars, filter_vars, detect_vars, more_vars>>

\* the variables of the scripts other than generate_storyboards.py
script_vars == <<scenes_vars, narrative_vars, pure_vars>>

\* what a step of generate_scenes.py, of generate_narrative.py or of a pure
\* function leaves alone
scenes_frame == <<main_vars, call_vars, narrative_vars, pure_vars>>
narrative_frame == <<main_vars, call_vars, scenes_vars, pure_vars>>
pure_frame == <<main_vars, call_vars, scenes_vars, narrative_vars>>
divide_frame == <<pure_frame, filter_vars, detect_vars, more_vars>>
filter_frame == <<pure_frame, divide_vars, detect_vars, more_vars>>
detect_frame == <<pure_frame, divide_vars, filter_vars, more_vars>>
more_frame == <<pure_frame, divide_vars, filter_vars, detect_vars>>
acts_frame == <<more_frame, panel_vars, prompt_vars>>
panel_frame == <<more_frame, acts_vars, prompt_vars>>
prompt_frame == <<more_frame, acts_vars, panel_vars>>

NoPath == <<>>
NoRequest == <<>>
NoOutcome == [result |-> "none", written |-> <<>>]
NoImages == [n \in {} |-> <<>>]

(***************************************************************************)
(* Inputs of a run: the cache files and the images left by earlier runs.   *)
(***************************************************************************)
\* the j-th storyboard written by an earlier run, which processed the scene
\* files from the second one on (this run's first scene is new, its second
\* scene is generated again)
PrevBoard(j) ==
    OutputPath(((j - 1) \div NChunks) + 2, ((j - 1) % NChunks) + 1, 1, NChunks, 1)

\* a character's list after its bootstrap and n storyboards showing it
RECURSIVE History(_, _)
History(c, n) ==
    IF n = 0 THEN <<CharacterRefPath(c)>>
    ELSE InsertFront(History(c, n - 1), PrevBoard(n), CharacterCap)

\* earlier storyboards showing a character; -1: the character was never seen
PrevRuns == {-1, 0, NChunks, CharacterCap - 1, CharacterCap}

CharacterCache(pj, pm) ==
    [c \in {n \in Characters : (n = "Joel" /\ pj >= 0) \/ (n = "Mary" /\ pm >= 0)} |->
        IF c = "Joel" THEN History(c, pj) ELSE History(c, pm)]

ExtraCacheInputs ==
    { NoRefs,
      [e \in {"Ark"} |-> <<ExtraRefPath(e)>>],
      [e \in {"Ark"} |-> <<ExtraRefPath(e), PrevBoard(1)>>],
      [e \in {"Ark"} |-> <<PrevBoard(1)>>] }

SettingCacheInputs ==
    { NoSettingRefs,
      [s \in {"Galilee"} |-> [indoor |-> <<SettingRefPath(s, "indoor")>>, outdoor |-> <<>>]],
      [s \in {"Galilee"} |-> [indoor |-> <<SettingRefPath(s, "indoor")>>,
                              outdoor |-> <<SettingRefPath(s, "outdoor")>>]] }

\* every path a reference map names
RefPaths(refs) == UNION {{refs[n][i] : i \in 1..Len(refs[n])} : n \in DOMAIN refs}
SettingRefPaths(refs) ==
    UNION {{refs[n].indoor[i] : i \in 1..Len(refs[n].indoor)}
             \cup {refs[n].outdoor[i] : i \in 1..Len(refs[n].outdoor)} : n \in DOMAIN refs}

\* the cache files, image files and scene casts a run may start from
Scenarios ==
    \* one character, after earlier runs of any length, its canonical file kept or lost
    { [cast |-> {"Joel"}, chars |-> CharacterCache(pj, -1), extras |-> NoRefs,
       settings |-> NoSettingRefs, boards |-> IF pj > 0 THEN pj ELSE 0,
       canon |-> IF joel_ref THEN {CharacterRefPath("Joel")} ELSE {}]
        : pj \in PrevRuns, joel_ref \in BOOLEAN }
    \cup
    \* two characters
    { [cast |-> {"Joel", "Mary"}, chars |-> CharacterCache(pj, pm), extras |-> NoRefs,
       settings |-> NoSettingRefs, boards |-> IF pj > 0 THEN pj ELSE 0,
       canon |-> IF pj >= 0 THEN {CharacterRefPath("Joel")} ELSE {}]
        : pj \in {-1, 0, NChunks}, pm \in {-1, 0} }
    \cup
    \* a character and an extra
    { [cast |-> {"Joel", "Ark"}, chars |-> CharacterCache(0, -1), extras |-> e,
       settings |-> NoSettingRefs, boards |-> 1, canon |-> {CharacterRefPath("Joel")}]
        : e \in ExtraCacheInputs }
    \cup
    \* a character and a setting
    { [cast |-> {"Joel", "Galilee"}, chars |-> CharacterCache(0, -1), extras |-> NoRefs,
       settings |-> t, boards |-> 1, canon |-> {CharacterRefPath("Joel")}]
        : t \in SettingCacheInputs }

\* the flags and counts a run may start with
RunInputs ==
    { [api_key |-> TRUE, dry_run |-> FALSE, scenes |-> NScenes, style |-> st]
        : st \in {"none", "defined", "on_disk"} }
    \cup { [api_key |-> FALSE, dry_run |-> FALSE, scenes |-> NScenes, style |-> "none"] }
    \cup { [api_key |-> TRUE, dry_run |-> TRUE, scenes |-> NScenes, style |-> st]
             : st \in {"defined", "on_disk"} }
    \cup { [api_key |-> TRUE, dry_run |-> FALSE, scenes |-> n, style |-> "none"]
             : n \in 0..(NScenes - 1) }
    \cup { [api_key |-> TRUE, dry_run |-> FALSE, scenes |-> 0, style |-> "defined"] }
    \cup { [api_key |-> FALSE, dry_run |-> FALSE, scenes |-> 0, style |-> "none"] }

MainInit ==
    \E sc \in Scenarios, run \in RunInputs :
        /\ pc = "start"
        /\ cast = sc.cast
        /\ api_key = run.api_key
        /\ dry_run = run.dry_run
        /\ has_style = (run.style # "none")
        /\ total_scenes = run.scenes
        /\ files = {PrevBoard(j) : j \in 1..sc.boards}
                     \cup sc.canon
                     \cup (IF "Mary" \in DOMAIN sc.chars THEN {CharacterRefPath("Mary")} ELSE {})
                     \cup RefPaths(sc.extras)
                     \cup SettingRefPaths(sc.settings)
                     \cup (IF run.style = "on_disk" THEN {StyleRefPath} ELSE {})
        \* load_character_references, load_extra_references, load_setting_references
        /\ character_references = sc.chars
        /\ extra_references = sc.extras
        /\ setting_references = sc.settings
        /\ saved_character_references = sc.chars
        /\ saved_extra_references = sc.extras
        /\ saved_setting_references = sc.settings
        \* get_style_reference_path
        /\ style_reference_path = (IF run.style = "on_disk" THEN StyleRefPath ELSE NoPath)
        /\ idx = 0
        /\ total_storyboards = 0
        /\ characters = {} /\ settings = {} /\ extras = {}
        /\ queue = <<>>
        /\ sb_idx = 0
        /\ chunk_characters = {} /\ chunk_settings = {} /\ chunk_extras = {}
        /\ char_ref_images = NoImages
        /\ extra_ref_images = NoImages
        /\ reference_images = <<>>
        /\ last = NoOutcome
        /\ requests = {}
        /\ last_request = NoRequest
        /\ boot_ok = <<>>
        /\ exit_code = -1


(***************************************************************************)
(* main(): start-up.                                                       *)
(***************************************************************************)
\* "if not args.api_key: return 2"
CheckApiKey ==
    /\ pc = "start"
    /\ UNCHANGED <<call_vars, script_vars>>
    /\ IF ~api_key
       THEN pc' = "exit" /\ exit_code' = 2
       ELSE pc' = "sync" /\ UNCHANGED exit_code
    /\ last_request' = NoRequest
    /\ UNCHANGED <<cast, api_key, dry_run, has_style, total_scenes, files,
                   character_references, extra_references, setting_references,
                   saved_character_references, saved_extra_references,
                   saved_setting_references, style_reference_path, idx,
                   total_storyboards, characters, settings, extras, queue, sb_idx,
                   chunk_characters, chunk_settings, chunk_extras, char_ref_images,
                   extra_ref_images, reference_images, last, requests, boot_ok>>

\* save_character_references: the file is rewritten with the in-memory map
save_character_references(saved, references) == references

\* "if sync_canonical_references(...): save_character_references(...)"
SyncCanonical ==
    /\ pc = "sync"
    /\ UNCHANGED <<call_vars, script_vars>>
    /\ LET synced == sync_canonical_references(character_references, files)
       IN  /\ character_references' = synced
           /\ saved_character_references' =
                 IF synced # character_references
                 THEN save_character_references(saved_character_references, synced)
                 ELSE saved_character_references
    /\ pc' = "style"
    /\ last_request' = NoRequest
    /\ UNCHANGED <<cast, api_key, dry_run, has_style, total_scenes, files,
                   extra_references, setting_references,
                   saved_extra_references, saved_setting_references,
                   style_reference_path, idx, total_storyboards, characters,
                   settings, extras, queue, sb_idx, chunk_characters,
                   chunk_settings, chunk_extras, char_ref_images, extra_ref_images,
                   reference_images, last, requests, boot_ok, exit_code>>

\* the outcomes of a generate_*_reference_image call: a path, or None
ReferenceResults == {"ok", "failed"}

\* "if not style_reference_path and definitions.get('style'):
\*      style_reference_path = generate_style_reference_image(...)"
NeedsStyleReference(path, style_defined) == path = NoPath /\ style_defined

StyleReference ==
    /\ pc = "style"
    /\ UNCHANGED <<call_vars, script_vars>>
    /\ IF NeedsStyleReference(style_reference_path, has_style)
       THEN \E result \in ReferenceResults :
              /\ requests' = requests \cup {<<"style">>}
              /\ last_request' = <<"style">>
              /\ IF result = "ok"
                 THEN /\ files' = files \cup {StyleRefPath}
                      /\ style_reference_path' = StyleRefPath
                 ELSE UNCHANGED <<files, style_reference_path>>
       ELSE /\ last_request' = NoRequest
            /\ UNCHANGED <<requests, files, style_reference_path>>
    /\ pc' = "glob"
    /\ UNCHANGED <<cast, api_key, dry_run, has_style, total_scenes,
                   character_references, extra_references, setting_references,
                   saved_character_references, saved_extra_references,
                   saved_setting_references, idx, total_storyboards, characters,
                   settings, extras, queue, sb_idx, chunk_characters,
                   chunk_settings, chunk_extras, char_ref_images, extra_ref_images,
                   reference_images, last, boot_ok, exit_code>>

\* "if not scene_paths: return 1"; otherwise the scene loop starts
GlobScenes ==
    /\ pc = "glob"
    /\ UNCHANGED <<call_vars, script_vars>>
    /\ IF total_scenes = 0
       THEN pc' = "exit" /\ exit_code' = 1 /\ UNCHANGED idx
       ELSE pc' = "detect" /\ idx' = 1 /\ UNCHANGED exit_code
    /\ last_request' = NoRequest
    /\ UNCHANGED <<cast, api_key, dry_run, has_style, total_scenes, files,
                   character_references, extra_references, setting_references,
                   saved_character_references, saved_extra_references,
                   saved_setting_references, style_reference_path,
                   total_storyboards, characters, settings, extras, queue, sb_idx,
                   chunk_characters, chunk_settings, chunk_extras, char_ref_images,
                   extra_ref_images, reference_images, last, requests, boot_ok>>

(***************************************************************************)
(* main(): one scene.  detect_entities and divide_scene_into_storyboards   *)
(* read the scene text, which is an input: their results are chosen here.  *)
(***************************************************************************)
\* the first-appearance checks of a scene, in the order main() makes them
BootQueue(cs, es, ss) ==
    LET cl == AsList(cs)
        el == AsList(es)
        sl == AsList(ss)
    IN  [i \in 1..Len(cl) |-> <<"character", cl[i]>>]
          \o [i \in 1..Len(el) |-> <<"extra", el[i]>>]
          \o [i \in 1..(2 * Len(sl)) |->
                <<"setting", sl[(i + 1) \div 2], Views[2 - (i % 2)]>>]

DetectScene ==
    /\ pc = "detect"
    /\ UNCHANGED <<call_vars, script_vars>>
    /\ \E cs \in SUBSET (Characters \cap cast), es \in SUBSET (Extras \cap cast),
          ss \in SUBSET (Settings \cap cast) :
          /\ characters' = cs
          /\ extras' = es
          /\ settings' = ss
          /\ total_storyboards' = NChunks
          /\ queue' = BootQueue(cs, es, ss)
    /\ pc' = "bootstrap"
    /\ last_request' = NoRequest
    /\ UNCHANGED <<cast, api_key, dry_run, has_style, total_scenes, files,
                   character_references, extra_references, setting_references,
                   saved_character_references, saved_extra_references,
                   saved_setting_references, style_reference_path, idx, sb_idx,
                   chunk_characters, chunk_settings, chunk_extras, char_ref_images,
                   extra_ref_images, reference_images, last, requests, boot_ok,
                   exit_code>>

\* "if char_name and char_name not in character_references"
NeedsCharacterReferenceAlways(char_name, references) == TRUE
NeedsCharacterReference(char_name, references) == char_name \notin DOMAIN references

\* "if extra_name and extra_name not in extra_references"
NeedsExtraReference(extra_name, references) == extra_name \notin DOMAIN references

\* needs_indoor / needs_outdoor
NeedsSettingReference(setting_name, view, references) ==
    IF setting_name \in DOMAIN references
    THEN references[setting_name][view] = <<>>
    ELSE TRUE

BootstrapCharacter ==
    /\ pc = "bootstrap"
    /\ UNCHANGED <<call_vars, script_vars>>
    /\ queue # <<>>
    /\ Head(queue)[1] = "character"
    /\ LET char_name == Head(queue)[2]
       IN  IF NeedsCharacterReference(char_name, character_references)
           THEN \E result \in ReferenceResults :
                  /\ requests' = requests \cup {Head(queue)}
                  /\ last_request' = Head(queue)
                  /\ IF result = "ok"
                     THEN /\ files' = files \cup {CharacterRefPath(char_name)}
                          /\ character_references' =
                                update_character_references(
                                    character_references, char_name,
                                    CharacterRefPath(char_name))
                          /\ saved_character_references' =
                                save_character_references(
                                    saved_character_references, character_references')
                          /\ boot_ok' = Append(boot_ok, Head(queue))
                     ELSE UNCHANGED <<files, character_references,
                                      saved_character_references, boot_ok>>
           ELSE /\ last_request' = NoRequest
                /\ UNCHANGED <<requests, files, character_references,
                               saved_character_references, boot_ok>>
    /\ queue' = Tail(queue)
    /\ UNCHANGED <<pc, cast, api_key, dry_run, has_style, total_scenes,
                   extra_references, setting_references,
                   saved_extra_references, saved_setting_references,
                   style_reference_path, idx, total_storyboards, characters,
                   settings, extras, sb_idx, chunk_characters, chunk_settings,
                   chunk_extras, char_ref_images, extra_ref_images,
                   reference_images, last, exit_code>>

BootstrapExtra ==
    /\ pc = "bootstrap"
    /\ UNCHANGED <<call_vars, script_vars>>
    /\ queue # <<>>
    /\ Head(queue)[1] = "extra"
    /\ LET extra_name == Head(queue)[2]
       IN  IF NeedsExtraReference(extra_name, extra_references)
           THEN \E result \in ReferenceResults :
                  /\ requests' = requests \cup {Head(queue)}
                  /\ last_request' = Head(queue)
                  /\ IF result = "ok"
                     THEN /\ files' = files \cup {ExtraRefPath(extra_name)}
                          /\ extra_references' =
                                update_extra_references(
                                    extra_references, extra_name,
                                    ExtraRefPath(extra_name))
                          /\ saved_extra_references' = extra_references'
                          /\ boot_ok' = Append(boot_ok, Head(queue))
                     ELSE UNCHANGED <<files, extra_references,
                                      saved_extra_references, boot_ok>>
           ELSE /\ last_request' = NoRequest
                /\ UNCHANGED <<requests, files, extra_references,
                               saved_extra_references, boot_ok>>
    /\ queue' = Tail(queue)
    /\ UNCHANGED <<pc, cast, api_key, dry_run, has_style, total_scenes,
                   character_references, setting_references,
                   saved_character_references, saved_setting_references,
                   style_reference_path, idx, total_storyboards, characters,
                   settings, extras, sb_idx, chunk_characters, chunk_settings,
                   chunk_extras, char_ref_images, extra_ref_images,
                   reference_images, last, exit_code>>

BootstrapSetting ==
    /\ pc = "bootstrap"
    /\ UNCHANGED <<call_vars, script_vars>>
    /\ queue # <<>>
    /\ Head(queue)[1] = "setting"
    /\ LET setting_name == Head(queue)[2]
           view == Head(queue)[3]
       IN  IF NeedsSettingReference(setting_name, view, setting_references)
           THEN \E result \in ReferenceResults :
                  /\ requests' = requests \cup {Head(queue)}
                  /\ last_request' = Head(queue)
                  /\ IF result = "ok"
                     THEN /\ files' = files \cup {SettingRefPath(setting_name, view)}
                          /\ setting_references' =
                                update_setting_references(
                                    setting_references, setting_name, view,
                                    SettingRefPath(setting_name, view))
                          /\ saved_setting_references' = setting_references'
                          /\ boot_ok' = Append(boot_ok, Head(queue))
                     ELSE UNCHANGED <<files, setting_references,
                                      saved_setting_references, boot_ok>>
           ELSE /\ last_request' = NoRequest
                /\ UNCHANGED <<requests, files, setting_references,
                               saved_setting_references, boot_ok>>
    /\ queue' = Tail(queue)
    /\ UNCHANGED <<pc, cast, api_key, dry_run, has_style, total_scenes,
                   character_references, extra_references,
                   saved_character_references, saved_extra_references,
                   style_reference_path, idx, total_storyboards, characters,
                   settings, extras, sb_idx, chunk_characters, chunk_settings,
                   chunk_extras, char_ref_images, extra_ref_images,
                   reference_images, last, exit_code>>

\* chunks_to_process: every chunk of the scene, from the first
BeginChunks ==
    /\ pc = "bootstrap"
    /\ UNCHANGED <<call_vars, script_vars>>
    /\ queue = <<>>
    /\ sb_idx' = 1
    /\ pc' = "prepare"
    /\ last_request' = NoRequest
    /\ UNCHANGED <<cast, api_key, dry_run, has_style, total_scenes, files,
                   character_references, extra_references, setting_references,
                   saved_character_references, saved_extra_references,
                   saved_setting_references, style_reference_path, idx,
                   total_storyboards, characters, settings, extras, queue,
                   chunk_characters, chunk_settings, chunk_extras, char_ref_images,
                   extra_ref_images, reference_images, last, requests, boot_ok,
                   exit_code>>


(***************************************************************************)
(* main(): one chunk.                                                      *)
(***************************************************************************)
\* "if not chunk_characters and characters: ... chunk_characters = characters"
CharacterFallback(detected, scene_characters, pronouns_and_actions) ==
    IF detected = {} /\ scene_characters # {} /\ pronouns_and_actions
    THEN scene_characters ELSE detected

\* "if not chunk_settings and settings: if not has_new_header:
\*      chunk_settings = settings[-1:]"
SettingFallback(detected, scene_settings, has_new_header) ==
    IF detected = {} /\ scene_settings # {} /\ ~has_new_header
    THEN LET sl == AsList(scene_settings) IN {sl[Len(sl)]}
    ELSE detected

\* the style reference, when it is set and the file exists
StyleImages(path, disk) == IF path # NoPath /\ path \in disk THEN <<path>> ELSE <<>>

\* detection, fallbacks, reference selection and the prompt of chunk sb_idx;
\* with --dry-run the loop continues without a request
PrepareChunk ==
    /\ pc = "prepare"
    /\ UNCHANGED <<call_vars, script_vars>>
    /\ \E dc \in SUBSET (Characters \cap cast), de \in SUBSET (Extras \cap cast),
          ds \in SUBSET (Settings \cap cast),
          pronouns_and_actions \in BOOLEAN, has_new_header \in BOOLEAN :
          LET cc == CharacterFallback(dc, characters, pronouns_and_actions)
              cs == SettingFallback(ds, settings, has_new_header)
              per_char == [c \in cc |->
                             SelectCharacterImages(c, character_references, files)]
              per_extra == [e \in de |->
                             SelectExtraImages(e, extra_references, files)]
              per_setting == [t \in cs |->
                             SelectSettingImages(t, setting_references, files)]
          IN  /\ chunk_characters' = cc
              /\ chunk_extras' = de
              /\ chunk_settings' = cs
              /\ char_ref_images' = per_char
              /\ extra_ref_images' = per_extra
              /\ reference_images' =
                    Dedup(Flatten(AsList(cc), per_char)
                            \o Flatten(AsList(de), per_extra)
                            \o Flatten(AsList(cs), per_setting)
                            \o StyleImages(style_reference_path, files))
    /\ IF dry_run
       THEN pc' = "after" /\ last' = [result |-> "dry_run", written |-> <<>>]
       ELSE pc' = "call" /\ last' = NoOutcome
    /\ last_request' = NoRequest
    /\ UNCHANGED <<cast, api_key, dry_run, has_style, total_scenes, files,
                   character_references, extra_references, setting_references,
                   saved_character_references, saved_extra_references,
                   saved_setting_references, style_reference_path, idx,
                   total_storyboards, characters, settings, extras, queue, sb_idx,
                   requests, boot_ok, exit_code>>

\* the paths of the first k images of an n-image response for the current chunk
WrittenPaths(scene, chunk, total, n_images, k) ==
    [i \in 1..k |-> OutputPath(scene, chunk, i, total, n_images)]

\* "for char in chunk_characters: update_character_references(...)", for one image
RECURSIVE UpdatePresent(_, _, _)
UpdatePresent(references, names, image_path) ==
    IF names = <<>> THEN references
    ELSE UpdatePresent(
             update_character_references(references, Head(names), image_path),
             Tail(names), image_path)

\* the "for img_idx, (mime, data) in enumerate(images)" loop over written images
RECURSIVE UpdateForImages(_, _, _)
UpdateForImages(references, names, paths) ==
    IF paths = <<>> THEN references
    ELSE UpdateForImages(UpdatePresent(references, names, Head(paths)),
                         names, Tail(paths))

\* save_character_references at the end of the try block of a chunk
SaveAfterChunkSkipped(saved, references) == saved
SaveAfterChunk(saved, references) == save_character_references(saved, references)

\* the request of chunk sb_idx and what follows it inside the try block
GenerateChunk ==
    /\ pc = "call"
    /\ UNCHANGED <<call_vars, script_vars>>
    /\ LET request == <<"chunk", ToString(idx), ToString(sb_idx)>>
       IN  /\ requests' = requests \cup {request}
           /\ last_request' = request
    /\ \/ \* call_gemini raises (HTTPError or another exception)
          /\ \E result \in {"http_error", "error"} :
                last' = [result |-> result, written |-> <<>>]
          /\ UNCHANGED <<files, character_references, saved_character_references>>
       \/ \* "if not images: ... continue"
          /\ last' = [result |-> "no_images", written |-> <<>>]
          /\ UNCHANGED <<files, character_references, saved_character_references>>
       \/ \* n images come back; writing image fail_at raises (0: none does)
          \E n \in 1..MaxImages, fail_at \in 0..MaxImages :
             /\ fail_at <= n
             /\ LET k == IF fail_at = 0 THEN n ELSE fail_at - 1
                    written == WrittenPaths(idx, sb_idx, total_storyboards, n, k)
                    updated == UpdateForImages(character_references,
                                               AsList(chunk_characters), written)
                IN  /\ files' = files \cup {written[i] : i \in 1..k}
                    /\ character_references' = updated
                    /\ IF fail_at = 0
                       THEN /\ saved_character_references' =
                                  SaveAfterChunk(saved_character_references, updated)
                            /\ last' = [result |-> "ok", written |-> written]
                       ELSE /\ last' = [result |-> "error", written |-> written]
                            /\ UNCHANGED saved_character_references
    /\ pc' = "after"
    /\ UNCHANGED <<cast, api_key, dry_run, has_style, total_scenes,
                   extra_references, setting_references,
                   saved_extra_references, saved_setting_references,
                   style_reference_path, idx, total_storyboards, characters,
                   settings, extras, queue, sb_idx, chunk_characters,
                   chunk_settings, chunk_extras, char_ref_images, extra_ref_images,
                   reference_images, boot_ok, exit_code>>

\* the end of a loop body: next chunk, next scene, or "return 0"
AdvanceChunk ==
    /\ pc = "after"
    /\ UNCHANGED <<call_vars, script_vars>>
    /\ IF sb_idx < total_storyboards
       THEN /\ sb_idx' = sb_idx + 1
            /\ pc' = "prepare"
            /\ UNCHANGED <<idx, exit_code, characters, settings, extras>>
       ELSE IF idx < total_scenes
       THEN /\ idx' = idx + 1
            /\ pc' = "detect"
            /\ sb_idx' = 0
            /\ characters' = {} /\ settings' = {} /\ extras' = {}
            /\ UNCHANGED exit_code
       ELSE /\ pc' = "done"
            /\ exit_code' = 0
            /\ sb_idx' = 0
            /\ characters' = {} /\ settings' = {} /\ extras' = {}
            /\ UNCHANGED idx
    \* the chunk's locals are dead once its loop body has ended
    /\ chunk_characters' = {} /\ chunk_settings' = {} /\ chunk_extras' = {}
    /\ char_ref_images' = NoImages
    /\ extra_ref_images' = NoImages
    /\ reference_images' = <<>>
    /\ last' = NoOutcome
    /\ last_request' = NoRequest
    /\ UNCHANGED <<cast, api_key, dry_run, has_style, total_scenes, files,
                   character_references, extra_references, setting_references,
                   saved_character_references, saved_extra_references,
                   saved_setting_references, style_reference_path,
                   total_storyboards, queue, requests, boot_ok>>

MainNext ==
    \/ CheckApiKey
    \/ SyncCanonical
    \/ StyleReference
    \/ GlobScenes
    \/ DetectScene
    \/ BootstrapCharacter
    \/ BootstrapExtra
    \/ BootstrapSetting
    \/ BeginChunks
    \/ PrepareChunk
    \/ GenerateChunk
    \/ AdvanceChunk

(***************************************************************************)
(* generate_scenes.py main(): one scene per step.                          *)
(***************************************************************************)
\* --end-scene was not given (None)
NoEndScene == 0 - 1

\* all_scenes filtered by --start-scene and --end-scene, in acts-file order
ScenesToGenerate(first, last_scene) ==
    SelectSeq([n \in 1..NSceneDefs |-> n],
              LAMBDA n : n >= first /\ (last_scene = NoEndScene \/ n <= last_scene))

\* load_continuity_notes: the earlier scenes (at most two, most recent first)
\* whose file exists and whose continuity notes are not cached
ContinuityNeeded(scene_number, disk, cached) ==
    SelectSeq(<<scene_number - 1, scene_number - 2>>,
              LAMBDA m : m >= 1 /\ m \in DOMAIN disk /\ m \notin cached)

\* outcomes of the try block of one scene
SceneOutcomes == {"ok", "no_text", "http_error", "error"}

ScenesInit ==
    /\ scenes_pc = "start"
    /\ scenes_api_key \in BOOLEAN
    /\ acts_file \in BOOLEAN
    /\ start_scene \in {1, 2, NSceneDefs + 1}
    /\ end_scene \in {NoEndScene, 2}
    /\ scenes_to_generate = <<>>
    /\ scenes_idx = 0
    /\ \E S \in SUBSET (1..NSceneDefs) : scene_files = [n \in S |-> "old"]
    /\ continuity_files \in {{}, DOMAIN scene_files}
    /\ previous_scenes = <<>>
    /\ scenes_requests = <<>>
    /\ scenes_last = "none"
    /\ scenes_exit = -1

\* no run of generate_scenes.py is followed
ScenesIdle ==
    /\ scenes_pc = "idle"
    /\ scenes_api_key = TRUE
    /\ acts_file = TRUE
    /\ start_scene = 1
    /\ end_scene = NoEndScene
    /\ scenes_to_generate = <<>>
    /\ scenes_idx = 0
    /\ scene_files = <<>>
    /\ continuity_files = {}
    /\ previous_scenes = <<>>
    /\ scenes_requests = <<>>
    /\ scenes_last = "none"
    /\ scenes_exit = -1

\* the return value of the checks before the loop, -1 when all of them pass:
\* "if not args.api_key: return 2", "if not os.path.isfile(args.acts_file):
\* return 1", "if not scenes_to_generate: return 1"
ScenesExitCodeFileFirst(key, acts, scenes) ==
    IF ~acts THEN 1 ELSE IF ~key THEN 2 ELSE IF scenes = <<>> THEN 1 ELSE -1
ScenesExitCode(key, acts, scenes) ==
    IF ~key THEN 2 ELSE IF ~acts THEN 1 ELSE IF scenes = <<>> THEN 1 ELSE -1

\* the checks before the loop: API key, acts file, scenes to generate
ScenesCheckArgs ==
    /\ scenes_pc = "start"
    /\ UNCHANGED scenes_frame
    /\ LET selected == ScenesToGenerate(start_scene, end_scene)
           code == ScenesExitCode(scenes_api_key, acts_file, selected)
       IN  /\ scenes_exit' = code
           /\ IF code = -1
              THEN /\ scenes_to_generate' = selected
                   /\ scenes_idx' = 1
                   /\ scenes_pc' = "scene"
              ELSE /\ scenes_pc' = "done"
                   /\ UNCHANGED <<scenes_to_generate, scenes_idx>>
    /\ UNCHANGED <<scenes_api_key, acts_file, start_scene, end_scene, scene_files,
                   continuity_files, previous_scenes, scenes_requests, scenes_last>>

\* "with open(output_path, 'w') as handle: handle.write(scene_text)"
WriteScene(disk, scene_num) ==
    [n \in DOMAIN disk \cup {scene_num} |-> IF n = scene_num THEN "new" ELSE disk[n]]

\* the try block reaches the write: call_gemini returned and the text is not empty
SceneWrittenAlways(outcome) == TRUE
SceneWritten(outcome) == outcome = "ok"

\* one scene: build_scene_prompt (with its continuity requests), the generation
\* request and what follows it inside the try block
ScenesGenerate ==
    /\ scenes_pc = "scene"
    /\ UNCHANGED scenes_frame
    /\ LET scene_num == scenes_to_generate[scenes_idx]
           needed == ContinuityNeeded(scene_num, scene_files, continuity_files)
       IN  /\ \E cached \in SUBSET {needed[i] : i \in 1..Len(needed)} :
                 continuity_files' = continuity_files \cup cached
           /\ scenes_requests' =
                 scenes_requests
                   \o [i \in 1..Len(needed) |-> <<"continuity", needed[i]>>]
                   \o <<<<"scene", scene_num>>>>
           /\ \E outcome \in SceneOutcomes :
                 /\ scenes_last' = outcome
                 /\ IF SceneWritten(outcome)
                    THEN /\ scene_files' = WriteScene(scene_files, scene_num)
                         /\ previous_scenes' = Append(previous_scenes, scene_num)
                    ELSE UNCHANGED <<scene_files, previous_scenes>>
    /\ scenes_pc' = "after"
    /\ UNCHANGED <<scenes_api_key, acts_file, start_scene, end_scene,
                   scenes_to_generate, scenes_idx, scenes_exit>>

\* the end of the loop body: the next scene, or "return 0"
ScenesAdvance ==
    /\ scenes_pc = "after"
    /\ UNCHANGED scenes_frame
    /\ IF scenes_idx < Len(scenes_to_generate)
       THEN /\ scenes_idx' = scenes_idx + 1
            /\ scenes_pc' = "scene"
            /\ UNCHANGED scenes_exit
       ELSE /\ scenes_pc' = "done"
            /\ scenes_exit' = 0
            /\ UNCHANGED scenes_idx
    /\ scenes_last' = "none"
    /\ UNCHANGED <<scenes_api_key, acts_file, start_scene, end_scene,
                   scenes_to_generate, scene_files, continuity_files,
                   previous_scenes, scenes_requests>>

ScenesNext ==
    \/ ScenesCheckArgs
    \/ ScenesGenerate
    \/ ScenesAdvance

(***************************************************************************)
(* generate_narrative.py main().                                           *)
(***************************************************************************)
\* the optional answers that are expanded with the service when given
OptionalInfos == {"characters", "settings", "extras", "style"}

NarrativeInit ==
    /\ narrative_pc = "start"
    /\ narrative_api_key \in BOOLEAN
    /\ use_gemini = TRUE
    /\ story_exists \in BOOLEAN
    /\ narrative_requests = 0
    /\ narrative_written = FALSE
    /\ narrative_exit = -1

\* no run of generate_narrative.py is followed
NarrativeIdle ==
    /\ narrative_pc = "idle"
    /\ narrative_api_key = TRUE
    /\ use_gemini = TRUE
    /\ story_exists = FALSE
    /\ narrative_requests = 0
    /\ narrative_written = FALSE
    /\ narrative_exit = -1

\* "if args.use_gemini and not args.api_key: ... args.use_gemini = False"
NarrativeCheckApiKey ==
    /\ narrative_pc = "start"
    /\ UNCHANGED narrative_frame
    /\ use_gemini' = (use_gemini /\ narrative_api_key)
    /\ narrative_pc' = "dir"
    /\ UNCHANGED <<narrative_api_key, story_exists, narrative_requests,
                   narrative_written, narrative_exit>>

\* the story directory: an existing one needs the user's consent
NarrativeStoryDir ==
    /\ narrative_pc = "dir"
    /\ UNCHANGED narrative_frame
    /\ \E overwrite \in BOOLEAN :
          IF story_exists /\ ~overwrite
          THEN narrative_pc' = "done" /\ narrative_exit' = 1
          ELSE narrative_pc' = "questions" /\ UNCHANGED narrative_exit
    /\ UNCHANGED <<narrative_api_key, use_gemini, story_exists, narrative_requests,
                   narrative_written>>

\* the questions, the expansions and generations by the service (each of
\* which catches its own errors), the three output files, "return 0"
NarrativeGenerate ==
    /\ narrative_pc = "questions"
    /\ UNCHANGED narrative_frame
    /\ \E answered \in SUBSET OptionalInfos :
          narrative_requests' =
              IF use_gemini THEN 1 + Cardinality(answered) + 2 ELSE 0
    /\ narrative_written' = TRUE
    /\ narrative_pc' = "done"
    /\ narrative_exit' = 0
    /\ UNCHANGED <<narrative_api_key, use_gemini, story_exists>>

NarrativeNext ==
    \/ NarrativeCheckApiKey
    \/ NarrativeStoryDir
    \/ NarrativeGenerate

(***************************************************************************)
(* divide_scene_into_storyboards.  A text is the list of its non-empty     *)
(* paragraphs: <<"h", i>> is the line "## title" of section i, <<"p", i, k>> *)
(* the k-th paragraph of the body of section i (i = 0: no section).        *)
(***************************************************************************)
\* f"## {title}\n\n{body}" of section i
SectionText(secs, i) ==
    <<<<"h", ToString(i)>>>> \o [k \in 1..secs[i].body |-> <<"p", ToString(i), ToString(k)>>]

\* "\n\n".join of the texts of sections from..to
RECURSIVE JoinSections(_, _, _)
JoinSections(secs, from, to) ==
    IF from > to THEN <<>>
    ELSE SectionText(secs, from) \o JoinSections(secs, from + 1, to)

\* max(1, n // d)
PerStoryboard(n, d) == IF n \div d < 1 THEN 1 ELSE n \div d

\* sections_per_storyboard
SectionsPerStoryboard(secs, maximum) ==
    IF (\E i \in 1..Len(secs) : secs[i].dialog >= 3) /\ 2 * Len(secs) < 3 * maximum
    THEN 1
    ELSE PerStoryboard(Len(secs), maximum)

\* "for i in range(0, len(items), per): items[i:i + per]": the g-th slice
SliceFirstOverlapping(g, per) == IF g = 1 THEN 1 ELSE (g - 1) * per
SliceFirst(g, per) == (g - 1) * per + 1
SliceLast(g, per, n) == IF g * per < n THEN g * per ELSE n
SliceCount(n, per) == (n + per - 1) \div per

\* the first pass over a scene that has sections
GroupSections(secs, maximum) ==
    LET per == SectionsPerStoryboard(secs, maximum)
    IN  [g \in 1..SliceCount(Len(secs), per) |->
            [title |-> <<ToString(SliceFirst(g, per))>>,
             text |-> JoinSections(secs, SliceFirst(g, per),
                                   SliceLast(g, per, Len(secs)))]]

\* the first pass over a scene without sections; n = 0: "paragraphs = [scene_text]"
GroupParagraphs(n, dense, maximum) ==
    LET count == IF n = 0 THEN 1 ELSE n
        per == IF dense THEN PerStoryboard(count, maximum + 1)
               ELSE PerStoryboard(count, maximum)
    IN  [g \in 1..SliceCount(count, per) |->
            [title |-> <<"Part", ToString(g)>>,
             text |-> [k \in 1..(SliceLast(g, per, count) - SliceFirst(g, per) + 1) |->
                          <<"p", "0", ToString(SliceFirst(g, per) + k - 1)>>]]]

\* "Split existing storyboards further": a chunk of several paragraphs is cut
\* in two at len(paragraphs) // 2
RECURSIVE SplitFurther(_)
SplitFurther(list) ==
    IF list = <<>> THEN <<>>
    ELSE LET sb == Head(list)
             mid == Len(sb.text) \div 2
         IN  (IF Len(sb.text) > 1
              THEN << [title |-> sb.title \o <<"(Part 1)">>,
                       text |-> SubSeq(sb.text, 1, mid)],
                      [title |-> sb.title \o <<"(Part 2)">>,
                       text |-> SubSeq(sb.text, mid + 1, Len(sb.text))] >>
              ELSE <<sb>>)
             \o SplitFurther(Tail(list))

\* "Ensure we have at least min_storyboards and at most max_storyboards"
EnsureBand(list, minimum, maximum) ==
    IF Len(list) < minimum THEN Take(SplitFurther(list), maximum)
    ELSE IF Len(list) > maximum THEN Take(list, maximum)
    ELSE list

\* the section records of the scene texts that are followed
SectionInputs == [body : 0..MaxParas, dialog : {0, 3}]

DivideInit ==
    /\ divide_pc = "start"
    /\ \E n \in 0..MaxSections : sections \in [1..n -> SectionInputs]
    /\ IF sections = <<>>
       THEN paragraphs \in 0..(2 * MaxParas) /\ dialog_dense \in BOOLEAN
       ELSE paragraphs = 0 /\ dialog_dense = FALSE
    /\ max_storyboards \in 1..MaxBand
    /\ min_storyboards \in 1..max_storyboards
    /\ storyboards = <<>>

\* no call of divide_scene_into_storyboards is followed
DivideIdle ==
    /\ divide_pc = "idle"
    /\ sections = <<>>
    /\ paragraphs = 0
    /\ dialog_dense = FALSE
    /\ min_storyboards = 4
    /\ max_storyboards = 6
    /\ storyboards = <<>>

\* the first pass: by sections when there are any, by paragraphs otherwise
DivideGroup ==
    /\ divide_pc = "start"
    /\ UNCHANGED divide_frame
    /\ storyboards' = IF sections # <<>>
                      THEN GroupSections(sections, max_storyboards)
                      ELSE GroupParagraphs(paragraphs, dialog_dense, max_storyboards)
    /\ divide_pc' = "grouped"
    /\ UNCHANGED <<sections, paragraphs, dialog_dense, min_storyboards,
                   max_storyboards>>

\* the second pass and the return
DivideEnsureBand ==
    /\ divide_pc = "grouped"
    /\ UNCHANGED divide_frame
    /\ storyboards' = EnsureBand(storyboards, min_storyboards, max_storyboards)
    /\ divide_pc' = "done"
    /\ UNCHANGED <<sections, paragraphs, dialog_dense, min_storyboards,
                   max_storyboards>>

DivideNext ==
    \/ DivideGroup
    \/ DivideEnsureBand

(***************************************************************************)
(* filter_characters_by_era (generate_scenes.py).  A character is followed  *)
(* by the value of its "era" entry: NoEraKey when the entry is missing.     *)
(***************************************************************************)
CharacterKeys == {"joel", "mary", "peter"}
NoEraKey == "<missing>"
EraValues == {NoEraKey, "", "biblical", "Biblical", "present-day"}

\* str.lower() of an era value
LowerEra(era) == IF era = "Biblical" THEN "biblical" ELSE era

\* char_data.get("era", "").lower()
CharEra(era) == IF era = NoEraKey THEN "" ELSE LowerEra(era)

\* get_eras_from_settings: the eras it returns are non-empty and lower-case
AllowedEraSets == SUBSET {"biblical", "present-day"}

IncludedOnlyTagged(char_era, allowed) == char_era \in allowed
\* the test of the loop: no era specified, or the era matches
Included(char_era, allowed) == char_era = "" \/ char_era \in allowed

FilterCharactersByEra(chars, allowed) ==
    IF allowed = {}
    THEN chars
    ELSE LET kept == {k \in DOMAIN chars : Included(CharEra(chars[k]), allowed)}
         IN [k \in kept |-> chars[k]]

FilterInit ==
    /\ filter_pc = "start"
    /\ \E keys \in SUBSET CharacterKeys :
          /\ Cardinality(keys) <= MaxCharacters
          /\ filter_characters \in [keys -> EraValues]
    /\ allowed_eras \in AllowedEraSets
    /\ filtered = <<>>

\* no call of filter_characters_by_era is followed
FilterIdle ==
    /\ filter_pc = "idle"
    /\ filter_characters = <<>>
    /\ allowed_eras = {}
    /\ filtered = <<>>

FilterCall ==
    /\ filter_pc = "start"
    /\ UNCHANGED filter_frame
    /\ filtered' = FilterCharactersByEra(filter_characters, allowed_eras)
    /\ filter_pc' = "done"
    /\ UNCHANGED <<filter_characters, allowed_eras>>

FilterNext == FilterCall

(***************************************************************************)
(* detect_entities and its use for one chunk in main() of                  *)
(* generate_storyboards.py.  A text is the sequence of its characters;      *)
(* positions are counted from 0 as in the source.  The names followed are   *)
(* single words for characters, so that the branch for multi-word           *)
(* character names (lines 353-486) is not entered, and no name overlaps     *)
(* itself, so that re.finditer yields every occurrence.                     *)
(***************************************************************************)

UpperCase ==
    <<"A", "B", "C", "D", "E", "F", "G", "H", "I", "J", "K", "L", "M", "N",
      "O", "P", "Q", "R", "S", "T", "U", "V", "W", "X", "Y", "Z">>

LowerCase ==
    <<"a", "b", "c", "d", "e", "f", "g", "h", "i", "j", "k", "l", "m", "n",
      "o", "p", "q", "r", "s", "t", "u", "v", "w", "x", "y", "z">>

WordChars ==
    {UpperCase[i] : i \in 1..Len(UpperCase)} \cup {LowerCase[i] : i \in 1..Len(LowerCase)}
        \cup {"0", "1", "2", "3", "4", "5", "6", "7", "8", "9", "_"}
WhiteSpace == {" ", "\n", "\t", "\r"}

\* str.lower(), character by character
LowerChar(c) ==
    IF \E i \in 1..Len(UpperCase) : UpperCase[i] = c
    THEN LowerCase[CHOOSE i \in 1..Len(UpperCase) : UpperCase[i] = c]
    ELSE c
Lower(s) == [i \in 1..Len(s) |-> LowerChar(s[i])]

MaxOf(a, b) == IF a >= b THEN a ELSE b
MinOf(a, b) == IF a <= b THEN a ELSE b

\* s[a:b]
Slice(s, a, b) == SubSeq(s, MaxOf(a, 0) + 1, MinOf(b, Len(s)))

\* s.startswith(w)
StartsWith(s, w) == Len(w) <= Len(s) /\ SubSeq(s, 1, Len(w)) = w

\* w occurs in s at position i
OccursAt(s, w, i) == i + Len(w) <= Len(s) /\ SubSeq(s, i + 1, i + Len(w)) = w

\* w in s
Contains(s, w) == \E i \in 0..(Len(s) - Len(w)) : OccursAt(s, w, i)

\* any(w in s for w in list)
ContainsAny(s, list) == \E k \in 1..Len(list) : Contains(s, list[k])

\* s.find(w), for a w that occurs in s
Find(s, w) ==
    CHOOSE i \in 0..(Len(s) - Len(w)) :
        OccursAt(s, w, i) /\ \A j \in 0..(i - 1) : ~OccursAt(s, w, j)

\* the regular expression \b at position i of s
WordBoundary(s, i) ==
    (i > 0 /\ s[i] \in WordChars) # (i < Len(s) /\ s[i + 1] \in WordChars)

\* the start positions of re.finditer(r'\b' + re.escape(w) + r'\b', s)
FindIter(s, w) ==
    {i \in 0..(Len(s) - Len(w)) :
        OccursAt(s, w, i) /\ WordBoundary(s, i) /\ WordBoundary(s, i + Len(w))}

\* the pieces of s between the characters of seps, empty pieces included
RECURSIVE SplitAt(_, _)
SplitAt(s, seps) ==
    IF \A i \in 1..Len(s) : s[i] \notin seps
    THEN <<s>>
    ELSE LET i == CHOOSE k \in 1..Len(s) :
                      s[k] \in seps /\ \A j \in 1..(k - 1) : s[j] \notin seps
         IN <<SubSeq(s, 1, i - 1)>> \o SplitAt(SubSeq(s, i + 1, Len(s)), seps)

\* str.splitlines(), for texts whose lines end with "\n"
SplitLines(s) ==
    IF s = <<>> THEN <<>>
    ELSE IF s[Len(s)] = "\n" THEN SplitAt(SubSeq(s, 1, Len(s) - 1), {"\n"})
    ELSE SplitAt(s, {"\n"})

\* str.split()
Words(s) == SelectSeq(SplitAt(s, WhiteSpace), LAMBDA w : w # <<>>)

\* str.strip()
RECURSIVE LStrip(_)
LStrip(s) ==
    IF s # <<>> /\ s[1] \in WhiteSpace THEN LStrip(Tail(s)) ELSE s
RECURSIVE RStrip(_)
RStrip(s) ==
    IF s # <<>> /\ s[Len(s)] \in WhiteSpace
    THEN RStrip(SubSeq(s, 1, Len(s) - 1))
    ELSE s
Strip(s) == RStrip(LStrip(s))


\* line.startswith("## ")
HeaderPrefix ==
    <<"#", "#", " ">>

DoubleQuote ==
    <<"\"">>

SingleQuote ==
    <<"'">>

\* action_verbs of detect_entities
ActionVerbs ==
    <<<<"s", "t", "o", "o", "d">>, <<"w", "a", "l", "k", "e", "d">>,
      <<"m", "o", "v", "e", "d">>, <<"l", "o", "o", "k", "e", "d">>,
      <<"t", "u", "r", "n", "e", "d">>,
      <<"e", "n", "t", "e", "r", "e", "d">>, <<"s", "a", "t">>,
      <<"h", "a", "i", "l", "e", "d">>, <<"s", "a", "i", "d">>,
      <<"s", "p", "o", "k", "e">>, <<"r", "e", "a", "c", "h", "e", "d">>,
      <<"w", "a", "t", "c", "h", "e", "d">>, <<"f", "e", "l", "t">>,
      <<"s", "t", "e", "p", "p", "e", "d">>,
      <<"s", "t", "e", "p", "p", "i", "n", "g">>, <<"w", "a", "s">>,
      <<"i", "s">>, <<"d", "i", "d">>, <<"h", "a", "d">>,
      <<"f", "o", "u", "n", "d">>, <<"b", "e", "g", "a", "n">>,
      <<"s", "t", "o", "p", "p", "e", "d">>,
      <<"p", "u", "l", "l", "e", "d">>,
      <<"r", "e", "a", "c", "h", "e", "d">>,
      <<"s", "t", "e", "p", "p", "e", "d">>,
      <<"s", "l", "u", "m", "p", "e", "d">>,
      <<"s", "l", "i", "d", "i", "n", "g">>,
      <<"w", "a", "i", "t", "i", "n", "g">>, <<"b", "e", "g", "a", "n">>,
      <<"s", "t", "r", "u", "g", "g", "l", "e", "d">>,
      <<"c", "a", "l", "i", "b", "r", "a", "t", "e">>,
      <<"s", "e", "i", "z", "e", "d">>,
      <<"l", "e", "a", "v", "i", "n", "g">>,
      <<"f", "o", "r", "c", "i", "n", "g">>,
      <<"e", "x", "h", "a", "l", "e", "d">>,
      <<"s", "w", "a", "l", "l", "o", "w", "i", "n", "g">>,
      <<"a", "d", "j", "u", "s", "t">>>>

Pronouns ==
    <<<<" ", "h", "e", " ">>, <<" ", "s", "h", "e", " ">>,
      <<" ", "t", "h", "e", "y", " ">>, <<" ", "h", "i", "s", " ">>,
      <<" ", "h", "e", "r", " ">>, <<" ", "t", "h", "e", "i", "r", " ">>>>

\* the verbs that may follow a name in subject position
SubjectVerbs ==
    <<<<" ", "w", "a", "s", " ">>, <<" ", "i", "s", " ">>,
      <<" ", "d", "i", "d", " ">>, <<" ", "h", "a", "d", " ">>,
      <<" ", "s", "t", "o", "o", "d">>,
      <<" ", "w", "a", "l", "k", "e", "d">>,
      <<" ", "m", "o", "v", "e", "d">>,
      <<" ", "l", "o", "o", "k", "e", "d">>,
      <<" ", "t", "u", "r", "n", "e", "d">>,
      <<" ", "e", "n", "t", "e", "r", "e", "d">>, <<" ", "s", "a", "t">>,
      <<" ", "h", "a", "i", "l", "e", "d">>, <<" ", "s", "a", "i", "d">>,
      <<" ", "s", "p", "o", "k", "e">>>>

FallbackVerbs ==
    <<<<" ", "s", "a", "i", "d">>, <<" ", "s", "p", "o", "k", "e">>,
      <<" ", "a", "s", "k", "e", "d">>,
      <<" ", "r", "e", "p", "l", "i", "e", "d">>,
      <<" ", "s", "t", "o", "o", "d">>,
      <<" ", "w", "a", "l", "k", "e", "d">>, <<" ", "m", "o", "v", "e", "d">>>>

\* reference_indicators of the settings loop
ReferenceIndicators ==
    <<<<" ", "f", "r", "o", "m", " ">>,
      <<"f", "r", "o", "m", " ", "t", "h", "e">>,
      <<" ", "t", "o", "w", "a", "r", "d", " ">>,
      <<"t", "o", "w", "a", "r", "d", " ", "t", "h", "e">>,
      <<" ", "h", "e", "a", "d", "i", "n", "g", " ", "t", "o", "w", "a", "r", "d">>,
      <<" ", "h", "e", "a", "d", "i", "n", "g", " ", "t", "o">>,
      <<" ", "l", "e", "a", "v", "i", "n", "g", " ">>,
      <<" ", "b", "e", "h", "i", "n", "d", " ">>,
      <<" ", "o", "b", "s", "e", "r", "v", "i", "n", "g", " ">>,
      <<" ", "n", "o", " ", "l", "o", "n", "g", "e", "r", " ">>,
      <<" ", "h", "e", "i", "g", "h", "t", " ", "o", "f", " ", "t", "h", "e">>,
      <<" ", "m", "o", "n", "u", "m", "e", "n", "t", "s", " ", "o", "f", " ">>,
      <<" ", "d", "e", "c", "a", "y", "i", "n", "g", " ", "h", "u", "s", "k", " ", "o", "f", " ">>,
      <<" ", "r", "e", "t", "u", "r", "n", "i", "n", "g", " ", "t", "o", " ">>,
      <<" ", "b", "a", "c", "k", " ", "t", "o", " ">>,
      <<" ", "g", "o", "i", "n", "g", " ", "t", "o", " ">>,
      <<" ", "d", "e", "s", "t", "i", "n", "a", "t", "i", "o", "n", " ">>,
      <<"h", "e", "a", "d", "i", "n", "g", " ", "t", "o", "w", "a", "r", "d", " ", "t", "h", "e">>,
      <<"t", "o", "w", "a", "r", "d", " ", "t", "h", "e", " ", "d", "e", "c", "a", "y", "i", "n", "g">>,
      <<" ", "c", "o", "m", "p", "a", "r", "e", "d", " ", "t", "o", " ">>,
      <<"c", "o", "m", "p", "a", "r", "e", "d", " ", "t", "o", " ", "t", "h", "e">>,
      <<" ", "c", "o", "m", "p", "a", "r", "e", "d", " ", "w", "i", "t", "h", " ">>,
      <<"c", "o", "m", "p", "a", "r", "e", "d", " ", "w", "i", "t", "h", " ", "t", "h", "e">>,
      <<" ", "v", "e", "r", "s", "u", "s", " ">>, <<" ", "v", "s", " ">>,
      <<" ", "u", "n", "l", "i", "k", "e", " ">>,
      <<" ", "l", "i", "k", "e", " ", "t", "h", "e", " ">>,
      <<" ", "s", "i", "m", "i", "l", "a", "r", " ", "t", "o", " ">>,
      <<" ", "c", "l", "a", "r", "i", "t", "y", " ", "o", "f", " ", "t", "h", "e", " ">>,
      <<" ", "o", "f", " ", "t", "h", "e", " ">>,
      <<" ", "v", "a", "c", "u", "u", "m", " ", "o", "f", " ", "t", "h", "e", " ">>,
      <<" ", "s", "t", "e", "r", "i", "l", "e", " ", "h", "e", "i", "g", "h", "t", " ", "o", "f", " ", "t", "h", "e", " ">>>>

PositiveLocationPreps ==
    <<<<" ", "a", "t", " ">>, <<" ", "i", "n", " ">>,
      <<" ", "i", "n", "s", "i", "d", "e", " ">>,
      <<" ", "o", "u", "t", "s", "i", "d", "e", " ">>,
      <<" ", "w", "i", "t", "h", "i", "n", " ">>, <<" ", "o", "n", " ">>>>

SettingCommonWords ==
    {<<"t", "h", "e">>, <<"o", "f">>, <<"i", "n">>, <<"a">>, <<"a", "n">>,
     <<"a", "n", "d">>, <<"o", "r">>, <<"t", "o">>, <<"f", "o", "r">>,
     <<"w", "i", "t", "h">>, <<"f", "r", "o", "m">>, <<"o", "n">>,
     <<"a", "t">>, <<"b", "y">>, <<"a", "s">>}

\* pronoun_patterns of main(), each between two \b
PronounWords ==
    <<<<"h", "e">>, <<"s", "h", "e">>, <<"t", "h", "e", "y">>,
      <<"h", "i", "s">>, <<"h", "e", "r">>, <<"t", "h", "e", "i", "r">>,
      <<"h", "i", "m">>>>

\* action_verbs of main()
ChunkActionVerbs ==
    <<<<"s", "t", "o", "o", "d">>, <<"w", "a", "l", "k", "e", "d">>,
      <<"m", "o", "v", "e", "d">>, <<"l", "o", "o", "k", "e", "d">>,
      <<"t", "u", "r", "n", "e", "d">>,
      <<"e", "n", "t", "e", "r", "e", "d">>, <<"s", "a", "t">>,
      <<"h", "a", "i", "l", "e", "d">>, <<"s", "a", "i", "d">>,
      <<"s", "p", "o", "k", "e">>, <<"r", "e", "a", "c", "h", "e", "d">>,
      <<"w", "a", "t", "c", "h", "e", "d">>, <<"f", "e", "l", "t">>,
      <<"s", "t", "e", "p", "p", "e", "d">>,
      <<"s", "t", "o", "p", "p", "e", "d">>,
      <<"p", "u", "l", "l", "e", "d">>,
      <<"s", "l", "u", "m", "p", "e", "d">>,
      <<"s", "l", "i", "d", "i", "n", "g">>,
      <<"w", "a", "i", "t", "i", "n", "g">>, <<"b", "e", "g", "a", "n">>,
      <<"s", "t", "r", "u", "g", "g", "l", "e", "d">>,
      <<"c", "a", "l", "i", "b", "r", "a", "t", "e">>,
      <<"s", "e", "i", "z", "e", "d">>,
      <<"l", "e", "a", "v", "i", "n", "g">>,
      <<"f", "o", "r", "c", "i", "n", "g">>,
      <<"e", "x", "h", "a", "l", "e", "d">>,
      <<"s", "w", "a", "l", "l", "o", "w", "i", "n", "g">>,
      <<"a", "d", "j", "u", "s", "t">>,
      <<"i", "n", "t", "e", "n", "s", "i", "f", "i", "e", "d">>,
      <<"v", "i", "b", "r", "a", "t", "e", "d">>, <<"w", "a", "s">>,
      <<"i", "s">>, <<"d", "i", "d">>, <<"h", "a", "d">>>>


\* the "## " lines of the text, in lower case
SectionHeaders(scene_text) ==
    LET lines == SplitLines(scene_text)
    IN  {Lower(lines[i]) : i \in {k \in 1..Len(lines) : StartsWith(lines[k], HeaderPrefix)}}

\* names_to_check without its empty names, in lower case
NamesToCheck(data) ==
    LET names == <<data.key, data.name>> \o data.aliases
    IN  {Lower(names[i]) : i \in {k \in 1..Len(names) : names[k] # <<>>}}

\* the occurrence of name at start shows the character doing, saying or being
\* observed
VisuallyPresent(scene_lower, name, start) ==
    LET end == start + Len(name)
        context_start == MaxOf(0, start - 50)
        context == Slice(scene_lower, context_start, end + 50)
        has_quotes == Contains(context, DoubleQuote) \/ Contains(context, SingleQuote)
        has_pronouns == ContainsAny(context, Pronouns)
        after == Slice(context, end - context_start, end - context_start + 20)
        followed_by_verb ==
            \E k \in 1..Len(SubjectVerbs) : StartsWith(after, SubjectVerbs[k])
    IN  \/ ContainsAny(context, ActionVerbs)
        \/ has_quotes
        \/ (has_pronouns /\ followed_by_verb)

\* the occurrence of name at start has a double quote within 20 characters
MentionedInDialogue(scene_lower, name, start) ==
    Contains(Slice(scene_lower, start - 20, start + Len(name) + 20), DoubleQuote)

\* the whole-word pass over one name
NameMatched(scene_lower, name) ==
    \E start \in FindIter(scene_lower, name) :
        \/ VisuallyPresent(scene_lower, name, start)
        \/ MentionedInDialogue(scene_lower, name, start)

\* the fallback pass over one name: a substring, in dialogue or action context
FallbackMatched(scene_lower, name) ==
    /\ Len(name) >= 4
    /\ Contains(scene_lower, name)
    /\ LET first == Find(scene_lower, name)
           context == Slice(scene_lower, first - 30, first + Len(name) + 30)
       IN  Contains(context, DoubleQuote) \/ ContainsAny(context, FallbackVerbs)

CharacterFound(scene_lower, data) ==
    \/ \E name \in NamesToCheck(data) : NameMatched(scene_lower, name)
    \/ \E name \in NamesToCheck(data) : FallbackMatched(scene_lower, name)

\* before_context + ' ' + after_context of an occurrence
CombinedContext(scene_lower, start, end) ==
    Slice(scene_lower, start - 60, start) \o <<" ">> \o Slice(scene_lower, end, end + 40)

IsJustReference(scene_lower, start, end) ==
    ContainsAny(CombinedContext(scene_lower, start, end), ReferenceIndicators)

\* the full name names the actual location
IsActualLocation(scene_lower, headers, name) ==
    \E start \in FindIter(scene_lower, name) :
        LET end == start + Len(name)
            context == Slice(scene_lower, start - 30, end + 30)
        IN  /\ ~IsJustReference(scene_lower, start, end)
            /\ \/ \E header \in headers : Contains(header, name)
               \/ ContainsAny(context, PositiveLocationPreps)

FullNameWasReference(scene_lower, name) ==
    \E start \in FindIter(scene_lower, name) :
        IsJustReference(scene_lower, start, start + Len(name))

\* one word of a multi-word name names the actual location
WordMatched(scene_lower, headers, name, word) ==
    /\ Len(word) >= 4
    /\ word \notin SettingCommonWords
    /\ \E start \in FindIter(scene_lower, word) :
          LET end == start + Len(word)
              combined_context == CombinedContext(scene_lower, start, end)
              in_header ==
                  /\ Len(word) >= 5
                  /\ \E header \in headers :
                        /\ Contains(header, word)
                        /\ Contains(combined_context, word)
                        /\ Contains(combined_context, name)
          IN  /\ ~IsJustReference(scene_lower, start, end)
              /\ ContainsAny(combined_context, PositiveLocationPreps) \/ in_header

SettingNameMatched(scene_lower, headers, name) ==
    \/ IsActualLocation(scene_lower, headers, name)
    \/ /\ Len(Words(name)) > 1
       /\ ~FullNameWasReference(scene_lower, name)
       /\ \E k \in 1..Len(Words(name)) :
             WordMatched(scene_lower, headers, name, Words(name)[k])

SettingFound(scene_lower, headers, data) ==
    \E name \in NamesToCheck(data) : SettingNameMatched(scene_lower, headers, name)

\* extras: a full name or alias as a whole word
ExtraFound(scene_lower, data) ==
    \E name \in NamesToCheck(data) : FindIter(scene_lower, name) # {}

\* the three lists returned, each in the order of the definitions
DetectEntities(scene_text, defs) ==
    LET scene_lower == Lower(scene_text)
        headers == SectionHeaders(scene_text)
    IN  [characters |-> SelectSeq(defs.characters,
                            LAMBDA d : CharacterFound(scene_lower, d)),
         settings |-> SelectSeq(defs.settings,
                            LAMBDA d : SettingFound(scene_lower, headers, d)),
         extras |-> SelectSeq(defs.extras,
                            LAMBDA d : ExtraFound(scene_lower, d))]

\* main(): the chunk names no character but has a pronoun and an action verb
PronounsAndActions(text) ==
    LET chunk_lower == Lower(text)
    IN  /\ \E k \in 1..Len(PronounWords) : FindIter(chunk_lower, PronounWords[k]) # {}
        /\ ContainsAny(chunk_lower, ChunkActionVerbs)

\* main(): the chunk starts with a "## " line
HasNewHeader(text) ==
    LET chunk_lines == SplitLines(Strip(text))
    IN  chunk_lines # <<>> /\ StartsWith(chunk_lines[1], HeaderPrefix)


\* the definitions store and the chunk texts that are followed

MaryKey ==
    <<"m", "a", "r", "y">>

MaryName ==
    <<"M", "a", "r", "y">>

GalileeKey ==
    <<"g", "a", "l", "i", "l", "e", "e">>

GalileeName ==
    <<"G", "a", "l", "i", "l", "e", "e">>

OperationsFloorKey ==
    <<"o", "p", "e", "r", "a", "t", "i", "o", "n", "s", "-", "f", "l", "o",
      "o", "r">>

OperationsFloorName ==
    <<"O", "p", "e", "r", "a", "t", "i", "o", "n", "s", " ", "F", "l", "o",
      "o", "r">>

MainFloorAlias ==
    <<"M", "a", "i", "n", " ", "F", "l", "o", "o", "r">>

ArkKey ==
    <<"a", "r", "k">>

ArkName ==
    <<"A", "r", "k">>

NoHeader ==
    <<>>

GalileeHeader ==
    <<"#", "#", " ", "G", "a", "l", "i", "l", "e", "e", "\n", "\n">>

OperationsFloorHeader ==
    <<"#", "#", " ", "O", "p", "e", "r", "a", "t", "i", "o", "n", "s", " ",
      "F", "l", "o", "o", "r", "\n", "\n">>

MaryAtTheWell ==
    <<"M", "a", "r", "y", " ", "s", "t", "o", "o", "d", " ", "a", "t", " ",
      "t", "h", "e", " ", "w", "e", "l", "l", " ", "a", "n", "d", " ", "s",
      "a", "i", "d", ",", " ", "\"", "I", " ", "a", "m", " ", "t", "h", "i",
      "r", "s", "t", "y", ".", "\"">>

MarysHometown ==
    <<"M", "a", "r", "y", "'", "s", " ", "h", "o", "m", "e", "t", "o", "w",
      "n", " ", "w", "a", "s", " ", "f", "a", "m", "o", "u", "s", " ", "f",
      "o", "r", " ", "i", "t", "s", " ", "w", "e", "l", "l", ".">>

MaryHometown ==
    <<"M", "a", "r", "y", " ", "h", "o", "m", "e", "t", "o", "w", "n", " ",
      "f", "a", "m", "o", "u", "s", " ", "w", "e", "l", "l", ".">>

GiftForMary ==
    <<"A", " ", "g", "i", "f", "t", " ", "f", "o", "r", " ", "M", "a", "r",
      "y">>

Rosemary ==
    <<"R", "o", "s", "e", "m", "a", "r", "y", " ", "s", "a", "i", "d", " ",
      "h", "e", "l", "l", "o", ".">>

MaryInGalilee ==
    <<"M", "a", "r", "y", " ", "w", "a", "l", "k", "e", "d", " ", "i", "n",
      " ", "G", "a", "l", "i", "l", "e", "e", ".">>

MaryFromGalilee ==
    <<"M", "a", "r", "y", " ", "c", "a", "m", "e", " ", "f", "r", "o", "m",
      " ", "G", "a", "l", "i", "l", "e", "e", ".">>

SheWaited ==
    <<"S", "h", "e", " ", "w", "a", "s", " ", "w", "a", "i", "t", "i", "n",
      "g", " ", "n", "e", "a", "r", " ", "t", "h", "e", " ", "A", "r", "k",
      ".">>

Nobody ==
    <<"N", "o", "b", "o", "d", "y", " ", "c", "a", "m", "e", ".">>

BackToOperationsFloor ==
    <<"T", "h", "e", "y", " ", "c", "a", "m", "e", " ", "b", "a", "c", "k",
      " ", "t", "o", " ", "t", "h", "e", " ", "p", "l", "a", "c", "e", " ",
      "w", "h", "e", "r", "e", " ", "i", "t", " ", "a", "l", "l", " ", "b",
      "e", "g", "a", "n", " ", "y", "e", "a", "r", "s", " ", "a", "g", "o",
      ",", " ", "t", "h", "e", " ", "O", "p", "e", "r", "a", "t", "i", "o",
      "n", "s", " ", "F", "l", "o", "o", "r", " ", "i", "n", " ", "t", "h",
      "e", " ", "t", "o", "w", "e", "r", ".">>

ChunkHeaders == {NoHeader, GalileeHeader, OperationsFloorHeader}

ChunkBodies ==
    {MaryAtTheWell, MarysHometown, MaryHometown, GiftForMary, Rosemary,
     MaryInGalilee, MaryFromGalilee, SheWaited, Nobody,
     BackToOperationsFloor}

\* the characters, settings and extras of definitions.json, in its order; the
\* "era" entry of the character is an input
Definitions(era) ==
    [characters |-> <<[key |-> MaryKey, name |-> MaryName, aliases |-> <<>>,
                       era |-> era]>>,
     settings |-> <<[key |-> GalileeKey, name |-> GalileeName,
                     aliases |-> <<>>, era |-> "biblical"],
                    [key |-> OperationsFloorKey, name |-> OperationsFloorName,
                     aliases |-> <<MainFloorAlias>>, era |-> "present-day"]>>,
     extras |-> <<[key |-> ArkKey, name |-> ArkName, aliases |-> <<>>,
                   era |-> NoEraKey]>>]

\* the sublists of list, in its order
SubLists(list) ==
    {SelectSeq(list, LAMBDA d : d \in S) :
        S \in SUBSET {list[i] : i \in 1..Len(list)}}

NoDefinitions == [characters |-> <<>>, settings |-> <<>>, extras |-> <<>>]

\* a chunk of a scene whose scene-level detection gave
\* whole_scene_characters and whole_scene_settings, after a chunk of the same
\* scene that used previous_chunk_settings
DetectInit ==
    /\ detect_pc = "start"
    /\ \E header \in ChunkHeaders, body \in ChunkBodies : chunk_text = header \o body
    /\ \E era \in {NoEraKey, "biblical", "present-day"} :
          /\ definitions = Definitions(era)
          /\ whole_scene_characters \in SubLists(definitions.characters)
          /\ whole_scene_settings \in SubLists(definitions.settings)
          /\ previous_chunk_settings \in SubLists(whole_scene_settings)
    /\ found_characters = <<>>
    /\ found_settings = <<>>
    /\ found_extras = <<>>

\* no chunk is followed
DetectIdle ==
    /\ detect_pc = "idle"
    /\ chunk_text = <<>>
    /\ definitions = NoDefinitions
    /\ whole_scene_characters = <<>>
    /\ whole_scene_settings = <<>>
    /\ previous_chunk_settings = <<>>
    /\ found_characters = <<>>
    /\ found_settings = <<>>
    /\ found_extras = <<>>

\* chunk_characters, chunk_settings, chunk_extras = detect_entities(chunk_text, definitions)
DetectChunk ==
    /\ detect_pc = "start"
    /\ UNCHANGED detect_frame
    /\ LET found == DetectEntities(chunk_text, definitions)
       IN  /\ found_characters' = found.characters
           /\ found_settings' = found.settings
           /\ found_extras' = found.extras
    /\ detect_pc' = "detected"
    /\ UNCHANGED <<chunk_text, definitions, whole_scene_characters,
                   whole_scene_settings, previous_chunk_settings>>

\* the fallback to the characters of the scene
FallbackCharacters ==
    /\ detect_pc = "detected"
    /\ UNCHANGED detect_frame
    /\ found_characters' =
          IF found_characters = <<>> /\ whole_scene_characters # <<>>
                /\ PronounsAndActions(chunk_text)
          THEN whole_scene_characters
          ELSE found_characters
    /\ detect_pc' = "characters"
    /\ UNCHANGED <<chunk_text, definitions, whole_scene_characters,
                   whole_scene_settings, previous_chunk_settings,
                   found_settings, found_extras>>

\* the fallback to the last setting of the scene
FallbackSettings ==
    /\ detect_pc = "characters"
    /\ UNCHANGED detect_frame
    /\ found_settings' =
          IF found_settings = <<>> /\ whole_scene_settings # <<>>
                /\ ~HasNewHeader(chunk_text)
          THEN <<whole_scene_settings[Len(whole_scene_settings)]>>
          ELSE found_settings
    /\ detect_pc' = "done"
    /\ UNCHANGED <<chunk_text, definitions, whole_scene_characters,
                   whole_scene_settings, previous_chunk_settings,
                   found_characters, found_extras>>

DetectNext ==
    \/ DetectChunk
    \/ FallbackCharacters
    \/ FallbackSettings

(***************************************************************************)
(* generate_acts_structure (generate_narrative.py): the numbering of the   *)
(* acts and scenes of the reply, and the default structure.                *)
(***************************************************************************)
\* scenes_per_act = 4 if len(cycles) == 3 else 3
ScenesPerAct(n) == IF n = 3 THEN 4 ELSE 3

\* the scenes of an act of the reply, numbered by the service from 1
ReturnedScenes(n) == [j \in 1..n |-> [number |-> j, purpose |-> "returned"]]

\* the lists of at most MaxActs acts the reply can hold, an act having up to
\* MaxReturnedScenes scenes; the service numbers its acts as it likes
ReturnedActs ==
    UNION { [1..a -> { [number |-> 1, scenes |-> ReturnedScenes(n)]
                       : n \in 0..MaxReturnedScenes }]
            : a \in 0..MaxActs }

\* the body of the numbering loop for one act: the scenes of the act and the
\* value of scene_num after it
NumberedScenes(scenes, per, num) ==
    LET padded ==
            IF Len(scenes) < per
            THEN scenes \o [j \in 1..(per - Len(scenes)) |->
                               [number |-> num + j - 1, purpose |-> "placeholder"]]
            ELSE IF Len(scenes) > per THEN SubSeq(scenes, 1, per)
            ELSE scenes
        from == IF Len(scenes) < per THEN num + (per - Len(scenes)) ELSE num
    IN  [scenes |-> [j \in 1..Len(padded) |->
                        [padded[j] EXCEPT !.number = from + j - 1]],
         scene_num |-> from + Len(padded)]

\* the default structure of the except branches: one act per cycle
DefaultActs(n) ==
    LET per == ScenesPerAct(n)
    IN  [i \in 1..n |->
            [number |-> i,
             scenes |-> [j \in 1..per |->
                            [number |-> (i - 1) * per + j, purpose |-> "default"]]]]

ActsInit ==
    /\ acts_pc = "start"
    /\ cycles_len \in {3, 5}
    /\ reply_is_json \in BOOLEAN
    /\ act_list \in (IF reply_is_json THEN ReturnedActs ELSE {<<>>})
    /\ act_i = 1
    /\ acts_scene_num = 1

ActsIdle ==
    /\ acts_pc = "idle"
    /\ cycles_len = 3
    /\ reply_is_json = FALSE
    /\ act_list = <<>>
    /\ act_i = 1
    /\ acts_scene_num = 1

\* acts = json.loads(text); scene_num = 1
ParseActs ==
    /\ acts_pc = "start"
    /\ reply_is_json
    /\ acts_pc' = "loop"
    /\ UNCHANGED <<cycles_len, reply_is_json, act_list, act_i, acts_scene_num>>
    /\ UNCHANGED acts_frame

\* except json.JSONDecodeError, except Exception: the default structure
ReturnDefaultActs ==
    /\ acts_pc = "start"
    /\ ~reply_is_json
    /\ act_list' = DefaultActs(cycles_len)
    /\ acts_pc' = "done"
    /\ UNCHANGED <<cycles_len, reply_is_json, act_i, acts_scene_num>>
    /\ UNCHANGED acts_frame

\* one iteration of for i, act in enumerate(acts)
NumberAct ==
    /\ acts_pc = "loop"
    /\ act_i <= Len(act_list)
    /\ LET numbered == NumberedScenes(act_list[act_i].scenes,
                                      ScenesPerAct(cycles_len), acts_scene_num)
       IN  /\ act_list' = [act_list EXCEPT ![act_i] =
                          [number |-> act_i, scenes |-> numbered.scenes]]
           /\ acts_scene_num' = numbered.scene_num
    /\ act_i' = act_i + 1
    /\ UNCHANGED <<acts_pc, cycles_len, reply_is_json>>
    /\ UNCHANGED acts_frame

\* return acts
ReturnActs ==
    /\ acts_pc = "loop"
    /\ act_i > Len(act_list)
    /\ acts_pc' = "done"
    /\ UNCHANGED <<cycles_len, reply_is_json, act_list, act_i, acts_scene_num>>
    /\ UNCHANGED acts_frame

ActsNext ==
    \/ ParseActs
    \/ ReturnDefaultActs
    \/ NumberAct
    \/ ReturnActs

(***************************************************************************)
(* derive_panel_instructions.  A paragraph of the chunk is one sentence    *)
(* that does not name a detected character, with its count of quote        *)
(* characters; they come in pairs, each pair is one match of the dialog    *)
(* pattern, of three characters or more, and its context is the sentence.  *)
(* An instruction is the list of the parts of its f-string.                *)
(***************************************************************************)
PanelParagraphs == [sentence : {"s1", "s2"}, quote_chars : {0, 2, 4}]

\* the texts of up to n paragraphs
ParagraphLists(n) == UNION { [1..k -> PanelParagraphs] : k \in 0..n }

\* the text of the sentence of a paragraph: the words and the quotes
SentenceOf(para) == <<para.sentence, ToString(para.quote_chars)>>

\* len(list(re.finditer(dialog_pattern, paragraph)))
DialogMatches(para) == para.quote_chars \div 2

\* ensure_character_mentioned, for a sentence that names no character
EnsureCharacterMentioned(sentence, names) ==
    IF names = <<>> THEN sentence ELSE <<names[1], ":">> \o sentence

\* the dialog loop of a chunk without section: up to 2 quotes per paragraph,
\* stopped at 5 instructions
RECURSIVE ParagraphDialog(_, _, _)
ParagraphDialog(para, k, ins) ==
    IF k > MinOf(2, DialogMatches(para)) THEN ins
    ELSE IF ~InList(SentenceOf(para), ins)
    THEN LET more == Append(ins, SentenceOf(para))
         IN  IF Len(more) >= 5 THEN more ELSE ParagraphDialog(para, k + 1, more)
    ELSE ParagraphDialog(para, k + 1, ins)

RECURSIVE DialogPass(_, _, _)
DialogPass(paras, i, ins) ==
    IF i > Len(paras) THEN ins
    ELSE LET more == ParagraphDialog(paras[i], 1, ins)
         IN  IF Len(more) >= 5 THEN more ELSE DialogPass(paras, i + 1, more)

\* the narrative loop of a chunk without section
RECURSIVE NarrativePass(_, _, _, _)
NarrativePass(paras, i, names, ins) ==
    IF i > Len(paras) THEN ins
    ELSE NarrativePass(paras, i + 1, names,
            IF paras[i].quote_chars < 2 /\ ~InList(SentenceOf(paras[i]), ins)
            THEN Append(ins, EnsureCharacterMentioned(SentenceOf(paras[i]), names))
            ELSE ins)

\* the sentences of the dialog matches of a section body, in order
RECURSIVE BodyMatches(_, _)
BodyMatches(paras, i) ==
    IF i > Len(paras) THEN <<>>
    ELSE [k \in 1..DialogMatches(paras[i]) |-> SentenceOf(paras[i])]
         \o BodyMatches(paras, i + 1)

\* the dialog loop of a section: up to 4 quotes
RECURSIVE SectionDialog(_, _, _, _)
SectionDialog(title, matches, k, ins) ==
    IF k > MinOf(4, Len(matches)) THEN ins
    ELSE SectionDialog(title, matches, k + 1,
            IF ~InList(matches[k], ins)
            THEN Append(ins, <<title, ":">> \o matches[k])
            ELSE ins)

\* the narrative loop of a section: up to 3 paragraphs
RECURSIVE SectionNarrative(_, _, _, _, _, _)
SectionNarrative(title, paras, i, count, names, ins) ==
    IF i > Len(paras) \/ count >= 3 THEN ins
    ELSE IF paras[i].quote_chars < 2 /\ ~InList(SentenceOf(paras[i]), ins)
    THEN SectionNarrative(title, paras, i + 1, count + 1, names,
            Append(ins, <<title, ":">>
                        \o EnsureCharacterMentioned(SentenceOf(paras[i]), names)))
    ELSE SectionNarrative(title, paras, i + 1, count, names, ins)

RECURSIVE SectionsPass(_, _, _, _)
SectionsPass(secs, i, names, ins) ==
    IF i > Len(secs) THEN ins
    ELSE SectionsPass(secs, i + 1, names,
            SectionNarrative(secs[i].title, secs[i].paragraphs, 1, 0, names,
                SectionDialog(secs[i].title,
                              BodyMatches(secs[i].paragraphs, 1), 1, ins)))

\* the instructions taken from the text
ExtractedInstructions(secs, paras, names) ==
    IF secs # <<>> THEN SectionsPass(secs, 1, names, <<>>)
    ELSE NarrativePass(paras, 1, names, DialogPass(paras, 1, <<>>))

\* "if not instructions"
OrDefaultInstruction(ins) ==
    IF ins = <<>> THEN << <<"Establish the setting and key characters.">> >>
    ELSE ins

\* panel_count = max(4, min(6, len(instructions))) when it is None
ChosenPanelCount(count, ins) ==
    IF count = <<>> THEN MaxOf(4, MinOf(6, Len(ins))) ELSE count[1]

\* padding[i], from 0, with or without the first detected character
Padding(i, names) ==
    IF names = <<>> THEN <<"padding", ToString(i)>>
    ELSE <<"padding", ToString(i), names[1]>>

\* while len(instructions) < panel_count: instructions.append(...)
RECURSIVE PadTo(_, _, _)
PadTo(ins, count, names) ==
    IF Len(ins) >= count THEN ins
    ELSE PadTo(Append(ins, Padding((Len(ins) - 1) % 5, names)), count, names)

\* the same without the padding
FitToCountTruncateOnly(ins, count, names) ==
    IF Len(ins) > count THEN SubSeq(ins, 1, count) ELSE ins

\* instructions[:panel_count], or the padding up to panel_count
FitToCount(ins, count, names) ==
    IF Len(ins) > count THEN SubSeq(ins, 1, count)
    ELSE IF Len(ins) < count THEN PadTo(ins, count, names)
    ELSE ins

PanelInit ==
    /\ panel_pc = "start"
    /\ \E n \in 0..MaxPanelSections :
          chunk_sections \in
              [1..n -> [title : {"t"}, paragraphs : ParagraphLists(MaxPanelParas)]]
    /\ chunk_paragraphs \in (IF chunk_sections = <<>>
                              THEN ParagraphLists(MaxPanelParas) ELSE {<<>>})
    /\ args_panel_count \in {<<>>} \cup { <<n>> : n \in 0..MaxPanels }
    /\ panel_count = args_panel_count
    /\ character_names \in {<<>>, <<"Mary">>}
    /\ instructions = <<>>

PanelIdle ==
    /\ panel_pc = "idle"
    /\ chunk_sections = <<>>
    /\ chunk_paragraphs = <<>>
    /\ args_panel_count = <<>>
    /\ panel_count = <<>>
    /\ character_names = <<>>
    /\ instructions = <<>>

\* the two passes over the sections or over the paragraphs
ExtractInstructions ==
    /\ panel_pc = "start"
    /\ instructions' =
          ExtractedInstructions(chunk_sections, chunk_paragraphs, character_names)
    /\ panel_pc' = "extracted"
    /\ UNCHANGED <<chunk_sections, chunk_paragraphs, args_panel_count,
                   panel_count, character_names>>
    /\ UNCHANGED panel_frame

\* the default instruction and the default panel_count
ChoosePanelCount ==
    /\ panel_pc = "extracted"
    /\ instructions' = OrDefaultInstruction(instructions)
    /\ panel_count' = <<ChosenPanelCount(panel_count, instructions')>>
    /\ panel_pc' = "counted"
    /\ UNCHANGED <<chunk_sections, chunk_paragraphs, args_panel_count,
                   character_names>>
    /\ UNCHANGED panel_frame

\* truncation or padding; return instructions
FitInstructions ==
    /\ panel_pc = "counted"
    /\ instructions' = FitToCount(instructions, panel_count[1], character_names)
    /\ panel_pc' = "done"
    /\ UNCHANGED <<chunk_sections, chunk_paragraphs, args_panel_count,
                   panel_count, character_names>>
    /\ UNCHANGED panel_frame

PanelNext ==
    \/ ExtractInstructions
    \/ ChoosePanelCount
    \/ FitInstructions

(***************************************************************************)
(* build_scene_prompt (generate_scenes.py): the characters it lists.  A    *)
(* character is followed by its key, the value of its "era" entry, whether *)
(* its role holds one of the main-role keywords and whether its name or an *)
(* alias occurs in the scene purpose; a setting named in the purpose by    *)
(* the value of its "era" entry.                                           *)
(***************************************************************************)
PromptEraValues == {NoEraKey, "Biblical", "present-day"}

\* the families of positions of the main-role characters and of the
\* characters named in the purpose, among n characters
PositionSets(n) == { {}, {1} \cap (1..n), {2, n} \cap (1..n) }

\* get_eras_from_settings
GetErasFromSettings(eras) ==
    { LowerEra(e) : e \in { x \in eras : x # NoEraKey /\ x # "" } }

\* filter_characters_by_era on a dict kept as the list of its items
FilterListByEra(list, allowed) ==
    IF allowed = {} THEN list
    ELSE SelectSeq(list, LAMBDA c : Included(CharEra(c.era), allowed))

\* extract_characters_from_purpose
ExtractCharactersFromPurpose(list) == SelectSeq(list, LAMBDA c : c.named)

PurposeCharactersUnfiltered(list, eras) == ExtractCharactersFromPurpose(list)
\* characters_from_purpose, filtered by era when the scene has eras
PurposeCharacters(list, eras) ==
    FilterListByEra(ExtractCharactersFromPurpose(list), eras)

\* the selection: all when there are at most 5, else those of the purpose, else
\* the main roles, else the first three
SelectCharacters(era_filtered, from_purpose) ==
    IF era_filtered = <<>> THEN <<>>
    ELSE IF Len(era_filtered) <= 5 THEN era_filtered
    ELSE IF from_purpose # <<>> THEN from_purpose
    ELSE LET main_roles == SelectSeq(era_filtered, LAMBDA c : c.main)
         IN  IF main_roles # <<>> THEN main_roles ELSE Take(era_filtered, 3)

PromptInit ==
    /\ prompt_pc = "start"
    /\ \E n \in 0..MaxDefined :
          \E eras \in [1..n -> PromptEraValues] :
             \E mains \in PositionSets(n), names \in PositionSets(n) :
                all_characters =
                    [i \in 1..n |-> [key |-> i, era |-> eras[i],
                                     main |-> i \in mains, named |-> i \in names]]
    /\ settings_from_purpose \in SUBSET {NoEraKey, "Biblical", "present-day"}
    /\ scene_eras = {}
    /\ era_filtered_characters = <<>>
    /\ characters_from_purpose = <<>>
    /\ prompt_characters = <<>>

PromptIdle ==
    /\ prompt_pc = "idle"
    /\ all_characters = <<>>
    /\ settings_from_purpose = {}
    /\ scene_eras = {}
    /\ era_filtered_characters = <<>>
    /\ characters_from_purpose = <<>>
    /\ prompt_characters = <<>>

\* scene_eras, characters_from_purpose and era_filtered_characters
FilterPromptCharacters ==
    /\ prompt_pc = "start"
    /\ scene_eras' = GetErasFromSettings(settings_from_purpose)
    /\ era_filtered_characters' = FilterListByEra(all_characters, scene_eras')
    /\ characters_from_purpose' = PurposeCharacters(all_characters, scene_eras')
    /\ prompt_pc' = "filtered"
    /\ UNCHANGED <<all_characters, settings_from_purpose, prompt_characters>>
    /\ UNCHANGED prompt_frame

\* the branches that choose characters
ChoosePromptCharacters ==
    /\ prompt_pc = "filtered"
    /\ prompt_characters' =
          SelectCharacters(era_filtered_characters, characters_from_purpose)
    /\ prompt_pc' = "done"
    /\ UNCHANGED <<all_characters, settings_from_purpose, scene_eras,
                   era_filtered_characters, characters_from_purpose>>
    /\ UNCHANGED prompt_frame

PromptNext ==
    \/ FilterPromptCharacters
    \/ ChoosePromptCharacters

(***************************************************************************)
(* call_gemini: the request loop (the same code in generate_storyboards,   *)
(* generate_scenes and generate_narrative).                                *)
(***************************************************************************)
\* --max-retries values (argparse type=int, default 5)
MaxRetriesValues == -1..MaxRetriesBound
\* --retry-base values (default 5.0)
RetryBaseValues == {1, 5}
\* HTTP statuses of a response
Statuses == {200, 429, 500}
\* Retry-After header of a 429 response: absent, a number, or an HTTP date
RetryAfterValues == {"", "3", "Wed, 21 Oct 2015 07:28:00 GMT"}

RECURSIVE Pow2(_)
Pow2(n) == IF n <= 0 THEN 1 ELSE 2 * Pow2(n - 1)

\* float(retry_after): the value, or -1 when float() raises ValueError
ParseFloat(text) == IF text = "3" THEN 3 ELSE -1

\* "if exc.code != 429 or attempt >= max_retries: raise"
RaisesOnlyAtLimit(code, tries, maximum) == tries >= maximum
Raises(code, tries, maximum) == code # 429 \/ tries >= maximum

\* "delay = float(retry_after)" or "delay = retry_base * (2 ** attempt)"
DelayBackoffOnly(retry_after, base, tries) == base * Pow2(tries)
Delay(retry_after, base, tries) ==
    IF retry_after # "" THEN ParseFloat(retry_after) ELSE base * Pow2(tries)

CallInit ==
    /\ call_pc = "loop"
    /\ max_retries \in MaxRetriesValues
    /\ retry_base \in RetryBaseValues
    /\ attempt = 0
    /\ n_requests = 0
    /\ delays = <<>>
    /\ call_result = "none"
    /\ only_429 = TRUE
    /\ retry_afters = <<>>

\* no call_gemini invocation is followed
CallIdle ==
    /\ call_pc = "idle"
    /\ max_retries = 5
    /\ retry_base = 5
    /\ attempt = 0
    /\ n_requests = 0
    /\ delays = <<>>
    /\ call_result = "none"
    /\ only_429 = TRUE
    /\ retry_afters = <<>>

\* one iteration of "while True": a request and the handling of its outcome
CallAttempt ==
    /\ call_pc = "loop"
    /\ UNCHANGED <<main_vars, script_vars>>
    /\ n_requests' = n_requests + 1
    /\ \/ \* the response arrives and is returned
          /\ call_pc' = "done"
          /\ call_result' = "response"
          /\ only_429' = FALSE
          /\ UNCHANGED <<attempt, delays, retry_afters>>
       \/ \* urlopen raises something that is not an HTTPError (URLError, timeout)
          /\ call_pc' = "done"
          /\ call_result' = "URLError"
          /\ only_429' = FALSE
          /\ UNCHANGED <<attempt, delays, retry_afters>>
       \/ \* urlopen raises HTTPError
          \E code \in Statuses \ {200}, retry_after \in RetryAfterValues :
             /\ only_429' = (only_429 /\ code = 429)
             /\ retry_afters' = IF code = 429
                                THEN Append(retry_afters, retry_after)
                                ELSE retry_afters
             /\ IF Raises(code, attempt, max_retries)
                THEN /\ call_pc' = "done"
                     /\ call_result' = IF code = 429 THEN "HTTPError429" ELSE "HTTPError"
                     /\ UNCHANGED <<attempt, delays>>
                ELSE IF Delay(retry_after, retry_base, attempt) < 0
                THEN \* float() raised
                     /\ call_pc' = "done"
                     /\ call_result' = "ValueError"
                     /\ UNCHANGED <<attempt, delays>>
                ELSE /\ delays' = Append(delays, Delay(retry_after, retry_base, attempt))
                     /\ attempt' = attempt + 1
                     /\ UNCHANGED <<call_pc, call_result>>
    /\ UNCHANGED <<max_retries, retry_base>>

CallNext == CallAttempt

\* no run of main() is followed
MainIdle ==
    /\ pc = "idle"
    /\ cast = {}
    /\ api_key = TRUE
    /\ dry_run = FALSE
    /\ has_style = FALSE
    /\ total_scenes = 0
    /\ files = {}
    /\ character_references = NoRefs
    /\ extra_references = NoRefs
    /\ setting_references = NoSettingRefs
    /\ saved_character_references = NoRefs
    /\ saved_extra_references = NoRefs
    /\ saved_setting_references = NoSettingRefs
    /\ style_reference_path = NoPath
    /\ idx = 0
    /\ total_storyboards = 0
    /\ characters = {} /\ settings = {} /\ extras = {}
    /\ queue = <<>>
    /\ sb_idx = 0
    /\ chunk_characters = {} /\ chunk_settings = {} /\ chunk_extras = {}
    /\ char_ref_images = NoImages
    /\ extra_ref_images = NoImages
    /\ reference_images = <<>>
    /\ last = NoOutcome
    /\ requests = {}
    /\ last_request = NoRequest
    /\ boot_ok = <<>>
    /\ exit_code = -1

(***************************************************************************)
(* Specifications.                                                         *)
(***************************************************************************)
vars == <<main_vars, call_vars, script_vars>>

\* no pure function is followed on its own
MoreIdle == ActsIdle /\ PanelIdle /\ PromptIdle
PureIdle == DivideIdle /\ FilterIdle /\ DetectIdle /\ MoreIdle

\* no script is run
ScriptsIdle == MainIdle /\ ScenesIdle /\ NarrativeIdle /\ CallIdle

\* one run of one of the scripts generate_storyboards.py, generate_scenes.py
\* and generate_narrative.py
Init ==
    \/ MainInit /\ ScenesIdle /\ NarrativeIdle /\ CallIdle /\ PureIdle
    \/ MainIdle /\ ScenesInit /\ NarrativeIdle /\ CallIdle /\ PureIdle
    \/ MainIdle /\ ScenesIdle /\ NarrativeInit /\ CallIdle /\ PureIdle
Next == MainNext \/ ScenesNext \/ NarrativeNext
Spec == Init /\ [][Next]_vars

\* one invocation of call_gemini; every iteration of its loop ends (urlopen
\* has a timeout, time.sleep returns), so the loop keeps taking steps
CallSpecInit == CallInit /\ MainIdle /\ ScenesIdle /\ NarrativeIdle /\ PureIdle
CallSpecNext == CallNext
CallSpec == CallSpecInit /\ [][CallSpecNext]_vars /\ WF_vars(CallSpecNext)

\* one call of divide_scene_into_storyboards
DivideSpecInit ==
    DivideInit /\ FilterIdle /\ DetectIdle /\ MoreIdle /\ ScriptsIdle
DivideSpecNext == DivideNext
DivideSpec == DivideSpecInit /\ [][DivideSpecNext]_vars

\* one call of filter_characters_by_era
FilterSpecInit ==
    FilterInit /\ DivideIdle /\ DetectIdle /\ MoreIdle /\ ScriptsIdle
FilterSpecNext == FilterNext
FilterSpec == FilterSpecInit /\ [][FilterSpecNext]_vars

\* the detection of the entities of one chunk
DetectSpecInit ==
    DetectInit /\ DivideIdle /\ FilterIdle /\ MoreIdle /\ ScriptsIdle
DetectSpecNext == DetectNext
DetectSpec == DetectSpecInit /\ [][DetectSpecNext]_vars

\* the three functions followed by DivideSpec, FilterSpec and DetectSpec are
\* not called
ThreeIdle == DivideIdle /\ FilterIdle /\ DetectIdle

\* one call of generate_acts_structure, from the reply of the service on
ActsSpecInit ==
    ActsInit /\ PanelIdle /\ PromptIdle /\ ThreeIdle /\ ScriptsIdle
ActsSpecNext == ActsNext
ActsSpec == ActsSpecInit /\ [][ActsSpecNext]_vars

\* one call of derive_panel_instructions
PanelSpecInit ==
    PanelInit /\ ActsIdle /\ PromptIdle /\ ThreeIdle /\ ScriptsIdle
PanelSpecNext == PanelNext
PanelSpec == PanelSpecInit /\ [][PanelSpecNext]_vars

\* the choice of the characters of one call of build_scene_prompt
PromptSpecInit ==
    PromptInit /\ ActsIdle /\ PanelIdle /\ ThreeIdle /\ ScriptsIdle
PromptSpecNext == PromptNext
PromptSpec == PromptSpecInit /\ [][PromptSpecNext]_vars


(***************************************************************************)
(* Properties.                                                             *)
(***************************************************************************)
\* reference selection of the current chunk is done and the cache is as it read it
Selected == pc = "call" \/ (pc = "after" /\ last.result = "dry_run")

\* the current chunk's generation has just completed successfully
ChunkSucceeded == pc = "after" /\ last.result = "ok"

\* the image written last by the chunk that has just succeeded
JustWritten == last.written[Len(last.written)]

CanonicalEntries(list) == SelectSeq(list, StartsWithRef)
StoryboardEntries(list) == SelectSeq(list, LAMBDA p : ~StartsWithRef(p))
CanonicalExtraEntries(list) == SelectSeq(list, StartsWithRefExtra)

\* C1 (as stated): for every character present in a chunk whose reference list
\* holds a canonical entry, selection attaches exactly one image, a canonical one.
C1_ExactlyOneCanonical ==
    Selected =>
        \A c \in chunk_characters :
            (c \in DOMAIN character_references
               /\ CanonicalEntries(character_references[c]) # <<>>)
            => /\ Len(char_ref_images[c]) = 1
               /\ StartsWithRef(char_ref_images[c][1])

\* C1 (amended): for such a character selection attaches the first canonical
\* entry of the list when that path is an existing file and nothing otherwise;
\* never two images and never a non-canonical one.
C1_CanonicalOrNothing ==
    Selected =>
        \A c \in chunk_characters :
            (c \in DOMAIN character_references
               /\ CanonicalEntries(character_references[c]) # <<>>)
            => LET canonical == CanonicalEntries(character_references[c])[1]
               IN  char_ref_images[c] =
                       IF canonical \in files THEN <<canonical>> ELSE <<>>

\* C1 witness: a present character whose list holds a canonical entry and two
\* storyboards, all existing files, gets the canonical image alone.
C1_Witness ==
    /\ Selected
    /\ \E c \in chunk_characters :
          /\ c \in DOMAIN character_references
          /\ Len(StoryboardEntries(character_references[c])) >= 2
          /\ \A i \in 1..Len(character_references[c]) :
                character_references[c][i] \in files
          /\ char_ref_images[c] = <<CharacterRefPath(c)>>

\* C2 (as stated): a canonical path that is in a character's list is still in it
\* after any later step of the run.
C2_CanonicalStays ==
    [][\A c \in Characters :
          (c \in DOMAIN character_references
             /\ InList(CharacterRefPath(c), character_references[c]))
          => (c \in DOMAIN character_references'
                /\ InList(CharacterRefPath(c), character_references'[c]))]_vars

\* C3 (as stated): for a present extra whose list holds a canonical entry, every
\* attached image of that extra is canonical.
C3_ExtraCanonicalOnly ==
    Selected =>
        \A e \in chunk_extras :
            (e \in DOMAIN extra_references
               /\ CanonicalExtraEntries(extra_references[e]) # <<>>)
            => \A i \in 1..Len(extra_ref_images[e]) :
                   StartsWithRefExtra(extra_ref_images[e][i])

\* C4 (as stated): right after a successful chunk generation the image just
\* written heads the list of every character present in the chunk.
C4_NewestFirst ==
    ChunkSucceeded =>
        \A c \in chunk_characters :
            /\ c \in DOMAIN character_references
            /\ character_references[c] # <<>>
            /\ Head(character_references[c]) = JustWritten

\* C5 (as stated): after a successful chunk generation the image just written is
\* in the list of every present extra and setting, and both caches are saved.
C5_ExtrasAndSettingsUpdated ==
    ChunkSucceeded =>
        /\ \A e \in chunk_extras :
              e \in DOMAIN extra_references /\ InList(JustWritten, extra_references[e])
        /\ \A t \in chunk_settings :
              /\ t \in DOMAIN setting_references
              /\ \/ InList(JustWritten, setting_references[t].indoor)
                 \/ InList(JustWritten, setting_references[t].outdoor)
        /\ saved_extra_references = extra_references
        /\ saved_setting_references = setting_references

\* C6 (as stated): at every point of a run every character and extra list has at
\* most 10 entries and every setting view list at most 5.
C6_CapsHold ==
    /\ \A c \in DOMAIN character_references : Len(character_references[c]) <= CharacterCap
    /\ \A e \in DOMAIN extra_references : Len(extra_references[e]) <= ExtraCap
    /\ \A t \in DOMAIN setting_references :
          /\ Len(setting_references[t].indoor) <= SettingCap
          /\ Len(setting_references[t].outdoor) <= SettingCap

\* C7: when a chunk's generation has completed successfully, and so before the
\* request of the next chunk, character_references.json holds the in-memory map
\* with that chunk's updates; and a chunk whose generation fails leaves the file
\* as the earlier chunks wrote it.
C7_SavedBeforeNextRequest ==
    /\ [](ChunkSucceeded =>
            /\ saved_character_references = character_references
            /\ \A c \in chunk_characters :
                  /\ c \in DOMAIN saved_character_references
                  /\ \A i \in 1..Len(last.written) :
                        InList(last.written[i], saved_character_references[c]))
    /\ [][(pc = "call" /\ last'.result # "ok")
            => saved_character_references' = saved_character_references]_vars

\* C7 witness: the second chunk of a scene has failed after the first one had
\* succeeded, and the file still lists the first chunk's image for a character.
C7_Witness ==
    /\ pc = "after"
    /\ sb_idx = 2
    /\ chunk_characters # {}
    /\ last.result \in {"http_error", "error"}
    /\ "Joel" \in DOMAIN saved_character_references
    /\ idx = 1
    /\ InList(OutputPath(1, 1, 1, total_storyboards, 1),
              saved_character_references["Joel"])

\* the entity of a first-appearance check is a key of its reference map
KeyPresent(item) ==
    CASE item[1] = "character" -> item[2] \in DOMAIN character_references
      [] item[1] = "extra" -> item[2] \in DOMAIN extra_references
      [] item[1] = "setting" -> item[2] \in DOMAIN setting_references

\* the list a first-appearance check of a setting view looks at is empty
ViewEmpty(item) ==
    /\ item[1] = "setting"
    /\ item[2] \in DOMAIN setting_references
    /\ setting_references[item[2]][item[3]] = <<>>

NoDuplicates(list) ==
    \A i, j \in 1..Len(list) : list[i] = list[j] => i = j

\* C8 (as stated): a first-appearance request is issued for an entity of the
\* scene if and only if its name is no key of its reference map.
C8_RequestIffKeyAbsent ==
    [][(pc = "bootstrap" /\ queue # <<>>)
         => ((last_request' = Head(queue)) <=> ~KeyPresent(Head(queue)))]_vars

\* C8 (amended): for a character or an extra the request is issued if and only
\* if its name is no key of its map; for a view of a setting, if and only if the
\* name is no key or that view's list is empty.  A successful bootstrap happens
\* at most once per character, per extra and per setting view.
C8_RequestIffNoReference ==
    /\ [][(pc = "bootstrap" /\ queue # <<>>)
            => ((last_request' = Head(queue))
                  <=> (~KeyPresent(Head(queue)) \/ ViewEmpty(Head(queue))))]_vars
    /\ [](NoDuplicates(boot_ok))

\* C8 witness: the second scene names a character that the first scene
\* bootstrapped, and its check has been passed without a second bootstrap.
C8_Witness ==
    /\ idx = 2
    /\ pc = "prepare"
    /\ "Joel" \in characters
    /\ InList(<<"character", "Joel">>, boot_ok)

\* C9 (as stated): with --dry-run no request is sent at any point of the run.
C9_DryRunSendsNothing == dry_run => requests = {}

\* C10 (as stated): an invocation with a limit of max_retries >= 0 never sends
\* more requests than max_retries, and one that received nothing but 429
\* responses ends by propagating the 429 error.
C10_AtMostMaxRetries ==
    /\ max_retries >= 0 => n_requests <= max_retries
    /\ (call_pc = "done" /\ only_429) => call_result = "HTTPError429"

\* C11: while call_gemini is still in its loop every response so far was a 429
\* and each was followed by exactly one sleep; an HTTP error of another status
\* ends the call at once, with no sleep after the request that received it.
C11_OtherErrorsRaiseAtOnce ==
    /\ call_pc = "loop" =>
          /\ only_429
          /\ n_requests = attempt
          /\ Len(delays) = attempt
    /\ call_result = "HTTPError" =>
          /\ call_pc = "done"
          /\ Len(delays) = n_requests - 1

\* C11 witness: after two retried 429 responses the third request received
\* another HTTP error, which ended the call
C11_Witness ==
    /\ call_result = "HTTPError"
    /\ attempt = 2
    /\ n_requests = 3
    /\ Len(delays) = 2

\* the latest chunk was requested and failed before any image was written
ChunkFailed(outcome) ==
    outcome.result \in {"http_error", "error", "no_images"} /\ outcome.written = <<>>

\* the generation requests of generate_scenes.py, in the order they were sent
SceneRequests == SelectSeq(scenes_requests, LAMBDA r : r[1] = "scene")

\* C12: a failed generation leaves the reference caches (in memory and on disk)
\* and, in generate_scenes, the scene files and summaries as they were; the
\* loop then moves to the next chunk, the next scene or the normal end, so a
\* run that ends with 0 has requested every chunk of every scene, in order.
C12_FailedUnitSkipped ==
    /\ [][(pc = "call" /\ ChunkFailed(last'))
            => UNCHANGED <<character_references, extra_references,
                           setting_references, saved_character_references,
                           saved_extra_references, saved_setting_references>>]_vars
    /\ [][(pc = "after" /\ ChunkFailed(last))
            => IF sb_idx < total_storyboards
               THEN pc' = "prepare" /\ idx' = idx /\ sb_idx' = sb_idx + 1
               ELSE IF idx < total_scenes
               THEN pc' = "detect" /\ idx' = idx + 1
               ELSE pc' = "done" /\ exit_code' = 0]_vars
    /\ []((pc = "done" /\ exit_code = 0 /\ ~dry_run)
            => \A i \in 1..total_scenes, j \in 1..NChunks :
                   <<"chunk", ToString(i), ToString(j)>> \in requests)
    /\ [][(scenes_pc = "scene" /\ scenes_last' # "ok")
            => UNCHANGED <<scene_files, previous_scenes>>]_vars
    /\ [][(scenes_pc = "after" /\ scenes_last # "ok")
            => IF scenes_idx < Len(scenes_to_generate)
               THEN scenes_pc' = "scene" /\ scenes_idx' = scenes_idx + 1
               ELSE scenes_pc' = "done" /\ scenes_exit' = 0]_vars
    /\ []((scenes_pc = "done" /\ scenes_exit = 0)
            => SceneRequests =
                 [i \in 1..Len(scenes_to_generate) |-> <<"scene", scenes_to_generate[i]>>])

\* C12 witness: the first chunk of the first scene failed (its image does not
\* exist) and the second chunk has been generated after it
C12_Witness ==
    /\ pc = "after"
    /\ idx = 1
    /\ sb_idx = 2
    /\ last.result = "ok"
    /\ <<"chunk", "1", "1">> \in requests
    /\ OutputPath(1, 1, 1, total_storyboards, 1) \notin files

\* C13 (as stated, its first half): a run that has ended with exit code 1 or 2
\* has sent no request to the service.
C13_NoRequestBeforeConfigExit ==
    (pc = "exit" /\ exit_code \in {1, 2}) => requests = {}

C15_CountWithinBand ==
    divide_pc = "done" =>
        /\ min_storyboards <= Len(storyboards)
        /\ Len(storyboards) <= max_storyboards

\* the paragraphs of all returned chunks, in order
RECURSIVE ChunkTexts(_)
ChunkTexts(list) ==
    IF list = <<>> THEN <<>> ELSE Head(list).text \o ChunkTexts(Tail(list))

\* a text without its "## " header lines
Bodies(text) == SelectSeq(text, LAMBDA para : para[1] = "p")

\* C16 (as stated): for a scene that has sections, the chunks returned, with
\* the header lines stripped, hold the paragraphs of every section body once
\* each and in order.
C16_EverySectionOnce ==
    (divide_pc = "done" /\ sections # <<>>) =>
        Bodies(ChunkTexts(storyboards)) = Bodies(JoinSections(sections, 1, Len(sections)))

\* C17: filter_characters_by_era never removes a character whose "era" entry is
\* missing or empty, whatever the set of allowed eras, and with an empty set of
\* allowed eras it returns the characters unchanged.
C17_EralessNeverRemoved ==
    filter_pc = "done" =>
        /\ \A k \in DOMAIN filter_characters :
              filter_characters[k] \in {NoEraKey, ""}
              => (k \in DOMAIN filtered /\ filtered[k] = filter_characters[k])
        /\ allowed_eras = {} => filtered = filter_characters

\* a call with allowed eras that dropped a tagged character and kept one
\* with a missing and one with an empty "era"
C17_Witness ==
    /\ filter_pc = "done"
    /\ allowed_eras # {}
    /\ DOMAIN filtered # DOMAIN filter_characters
    /\ \E k \in DOMAIN filtered : filter_characters[k] = NoEraKey
    /\ \E k \in DOMAIN filtered : filter_characters[k] = ""

\* the eras of the settings of a list
ErasOf(list) == {list[j].era : j \in 1..Len(list)} \ {NoEraKey}

\* C18: the present-character list used for a chunk holds no character whose era
\* tag differs from the era of every setting detected for the chunk (a chunk
\* under a present-day header holds no biblical-era character).
C18_NoEraMixing ==
    (detect_pc = "done" /\ found_settings # <<>>) =>
        \A i \in 1..Len(found_characters) :
            found_characters[i].era # NoEraKey
            => found_characters[i].era \in ErasOf(found_settings)

\* some whole-word occurrence of a name of the character has a quotation mark,
\* an action verb or a pronoun and a following verb in its local context
HasPresenceContext(text, data) ==
    \E name \in NamesToCheck(data) :
        \E start \in FindIter(Lower(text), name) :
            \/ VisuallyPresent(Lower(text), name, start)
            \/ MentionedInDialogue(Lower(text), name, start)

\* C19: detect_entities reports a character present only when some occurrence of
\* its name has a quotation mark, an action verb or a pronoun and a verb in its
\* local context; Mary is reported for the sentence at the well and is not
\* reported for the sentence about her hometown.
C19_PresentOnlyInContext ==
    detect_pc = "detected" =>
        /\ \A i \in 1..Len(found_characters) :
              HasPresenceContext(chunk_text, found_characters[i])
        /\ chunk_text = MaryAtTheWell => found_characters # <<>>
        /\ chunk_text = MarysHometown => found_characters = <<>>

\* C20: a run over inputs whose scene file or storyboard image already exists
\* issues no generation request for that artifact and leaves the existing file
\* as it is; only missing artifacts are generated.
C20_OnlyMissingGenerated ==
    /\ [][(pc = "call" /\ pc' = "after")
            => OutputPath(idx, sb_idx, 1, total_storyboards, 1) \notin files]_vars
    /\ [][(scenes_pc = "scene" /\ scenes_pc' = "after")
            => scenes_to_generate[scenes_idx] \notin DOMAIN scene_files]_vars
    /\ [][\A n \in DOMAIN scene_files : scene_files'[n] = scene_files[n]]_vars

HeaderCount(text) == Len(SelectSeq(text, LAMBDA para : para[1] = "h"))

\* ceil(n / d)
CeilDiv(n, d) == (n + d - 1) \div d

\* C22: for a scene with section headers (none of them dialogue-heavy) the first
\* pass groups consecutive sections into groups of ceil(#sections / max) sections,
\* so that it yields at most max_storyboards chunks.
C22_GroupsOfCeilSize ==
    (divide_pc = "grouped" /\ sections # <<>>
       /\ \A i \in 1..Len(sections) : sections[i].dialog < 3) =>
        /\ Len(storyboards) <= max_storyboards
        /\ \A g \in 1..(Len(storyboards) - 1) :
              HeaderCount(storyboards[g].text) = CeilDiv(Len(sections), max_storyboards)

SceneParagraphs ==
    IF sections # <<>>
    THEN JoinSections(sections, 1, Len(sections))
    ELSE [k \in 1..(IF paragraphs = 0 THEN 1 ELSE paragraphs) |->
             <<"p", "0", ToString(k)>>]

\* C24 (as stated): in every returned chunk a section header line occurs only as
\* the first line of the chunk.
C24_HeaderOnlyFirst ==
    divide_pc = "done" =>
        \A g \in 1..Len(storyboards) :
            \A k \in 2..Len(storyboards[g].text) : storyboards[g].text[k][1] # "h"

\* C24 (amended): every chunk of the first pass over a scene with sections starts
\* with a section header line, and the returned chunks, one after the other, are
\* the first paragraphs of the scene in its order: each chunk is made of whole
\* paragraphs and no paragraph is in two chunks.
C24_ChunksAreRunsOfParagraphs ==
    /\ (divide_pc = "grouped" /\ sections # <<>>) =>
          \A g \in 1..Len(storyboards) : storyboards[g].text[1][1] = "h"
    /\ divide_pc \in {"grouped", "done"} =>
          /\ Len(ChunkTexts(storyboards)) <= Len(SceneParagraphs)
          /\ ChunkTexts(storyboards)
               = SubSeq(SceneParagraphs, 1, Len(ChunkTexts(storyboards)))

\* C24 witness: a returned chunk groups two sections that have a body, the
\* header of the second inside the chunk
C24_Witness ==
    /\ divide_pc = "done"
    /\ \E g \in 1..Len(storyboards) :
          /\ HeaderCount(storyboards[g].text) >= 2
          /\ Len(Bodies(storyboards[g].text)) >= 2

\* the occurrence of name at start has a reference indicator within 60
\* characters before it or 40 characters after it
ReferenceOccurrence(text, name, start) ==
    \/ ContainsAny(Slice(Lower(text), start - 60, start), ReferenceIndicators)
    \/ ContainsAny(Slice(Lower(text), start + Len(name), start + Len(name) + 40),
                   ReferenceIndicators)

\* C25: a setting whose name or alias occurs in the text, every such occurrence
\* having a reference indicator within 60 characters before or 40 after it, is
\* not in the settings that detect_entities returns.
C25_ReferencesNeverPresent ==
    detect_pc = "detected" =>
        \A i \in 1..Len(found_settings) :
            LET data == found_settings[i]
                occurrences ==
                    {<<name, start>> \in NamesToCheck(data) \X (0..Len(chunk_text)) :
                        start \in FindIter(Lower(chunk_text), name)}
            IN  occurrences # {} =>
                    \E o \in occurrences : ~ReferenceOccurrence(chunk_text, o[1], o[2])

\* C26: a chunk that detects no setting and does not open with a section header
\* uses the setting used for the chunk before it; a chunk that detects no setting
\* and opens with a new header has an empty setting list.
C26_CarryPreviousChunkSetting ==
    (detect_pc = "done"
       /\ DetectEntities(chunk_text, definitions).settings = <<>>) =>
        IF HasNewHeader(chunk_text)
        THEN found_settings = <<>>
        ELSE found_settings = previous_chunk_settings

\* the scene numbers of the returned acts, in order
SceneNumbers(list) ==
    LET RECURSIVE Flat(_)
        Flat(i) ==
            IF i > Len(list) THEN <<>>
            ELSE [j \in 1..Len(list[i].scenes) |-> list[i].scenes[j].number]
                 \o Flat(i + 1)
    IN  Flat(1)

\* C27: the returned acts are numbered 1..A, each has exactly scenes_per_act
\* scenes, and the scene numbers over all acts in order are 1, 2, ...,
\* A * scenes_per_act.
C27_ActsAndScenesNumbered ==
    acts_pc = "done" =>
        LET per == ScenesPerAct(cycles_len)
        IN  /\ \A i \in 1..Len(act_list) :
                  act_list[i].number = i /\ Len(act_list[i].scenes) = per
            /\ SceneNumbers(act_list) = [n \in 1..(Len(act_list) * per) |-> n]

\* C28: derive_panel_instructions returns exactly panel_count instructions
\* when a panel_count of 1 or more was given, and between 4 and 6 of them when
\* it was None; the result is not empty.
C28_PanelCountInstructions ==
    panel_pc = "done" =>
        /\ (args_panel_count # <<>> /\ args_panel_count[1] >= 1)
              => Len(instructions) = args_panel_count[1]
        /\ args_panel_count = <<>> => Len(instructions) \in 4..6
        /\ (args_panel_count = <<>> \/ args_panel_count[1] >= 1)
              => instructions # <<>>

\* a text with more than six instructions, cut down to three, and a text
\* with a single instruction, padded to four
C28_Witness ==
    /\ panel_pc = "done"
    /\ \/ /\ args_panel_count = <<3>>
          /\ Len(ExtractedInstructions(chunk_sections, chunk_paragraphs,
                                       character_names)) > 6
       \/ /\ args_panel_count = <<>>
          /\ Len(ExtractedInstructions(chunk_sections, chunk_paragraphs,
                                       character_names)) = 1
          /\ Len(instructions) = 4

\* C29: with min_storyboards = max_storyboards = 1 the function returns exactly
\* one chunk, and that chunk holds every section or paragraph of the scene.
C29_SingleChunkHoldsScene ==
    (divide_pc = "done" /\ min_storyboards = 1 /\ max_storyboards = 1) =>
        /\ Len(storyboards) = 1
        /\ storyboards[1].text = SceneParagraphs

\* the character has no era or an era of the scene
EraCompatible(c) == CharEra(c.era) = "" \/ CharEra(c.era) \in scene_eras

\* C30: when the settings named in the purpose give a non-empty set of eras,
\* every character listed by build_scene_prompt has no era or an era of that
\* set, on every branch of the selection; and a character is listed whenever
\* one era-compatible character is defined.
C30_ListedCharactersMatchEra ==
    prompt_pc = "done" =>
        /\ scene_eras # {} =>
              \A i \in 1..Len(prompt_characters) :
                  EraCompatible(prompt_characters[i])
        /\ (\E i \in 1..Len(all_characters) :
               scene_eras # {} => EraCompatible(all_characters[i]))
              => prompt_characters # <<>>

\* more than five era-compatible characters, a character named in the purpose
\* that the era filter removed, and one that it kept and that is listed
C30_Witness ==
    /\ prompt_pc = "done"
    /\ scene_eras # {}
    /\ Len(era_filtered_characters) > 5
    /\ \E i \in 1..Len(all_characters) :
          all_characters[i].named /\ ~EraCompatible(all_characters[i])
    /\ prompt_characters # <<>>
    /\ prompt_characters = characters_from_purpose

====
